---- MODULE Spec2Model ----
(***************************************************************************)
(* Model of the echo-state core: the Echo state container                  *)
(* (core/Echo.ts), the IndexedDBAdapter and the LocalStorageAdapter.       *)
(*                                                                         *)
(* Spec: one container instance together with the two backends it can be   *)
(* bound to.  Asynchronous work (IndexedDB requests, promise               *)
(* continuations) is kept in `tasks`, in issue order.                      *)
(* PeerSpec: two containers bound to the same sync-enabled target, their   *)
(* listener registries and the BroadcastChannel between them.              *)
(* SwitchSpec: Spec started from a container that is Ready on an indexed   *)
(* target, with the switch() of EchoItem added to its operations.          *)
(* ListenerSpec: one container in Temporary mode and its listener          *)
(* registry, with listeners that add or remove a listener when invoked.    *)
(* AdapterSpec: one IndexedDBAdapter, the connections it opens and the     *)
(* getItem/setItem calls in flight on it.                                  *)
(* EqualSpec: set() with replace on states that hold arrays and nested     *)
(* records, decided by isEqual.                                            *)
(* TargetSpec: two sync-enabled containers, each on a target of its own    *)
(* choice, and the channels their names select.                            *)
(* ManagerSpec: the listener sets EchoManager keeps for one                *)
(* database:objectStore key and the unsubscribe functions it returns.      *)
(* IdbeSpec: one IDBE instance (src/IDBE.ts), its switchDB calls and the   *)
(* open requests and hydrates they start.                                  *)
(* LegacySpec: two containers of the store-based Echo (src/Echo.ts) with   *)
(* its digest-suppressed synchronisation.                                  *)
(***************************************************************************)
EXTENDS Integers, Sequences, FiniteSets, TLC

(* ------------------------------ bounds --------------------------------- *)
\* calls of EchoManager.subscribe, of the functions it returns, and of notify
MaxManagerCalls == 5
MaxVal == 1
MaxOps == 3

(* ------------------------------ values --------------------------------- *)
Keys == {"a", "b"}
KeyOrder == <<"a", "b">>
Vals == 0..MaxVal
StateVals == UNION {[D -> Vals] : D \in SUBSET Keys}
Partials == {[a |-> 1], [a |-> 0, b |-> 1]}
Updaters == {"incA"}
DefaultState == [k \in Keys |-> 0]
NoRecord == [null |-> 0]

DbNames == {"A", "B"}
LsNames == {"L"}
\* the configurations callers pass to indexed() and localStorage()
IndexedConfigs == {[name |-> "A", sync |-> TRUE], [name |-> "B", sync |-> FALSE]}
LsConfigs == {[name |-> "L", sync |-> TRUE]}
NoAdapter == [kind |-> "none", name |-> "none"]
NoChannel == "none"
IdbTarget(n) == [kind |-> "indexed", name |-> n]
LsTarget(n) == [kind |-> "localStorage", name |-> n]

\* containers that share a channel, and the listeners callers register
Tabs == {"A", "B"}
Listeners == {"f", "g"}
\* the target both containers of PeerSpec are bound to
SharedName == "L"
\* BroadcastChannel messages
Msg(type, st, key) == [type |-> type, state |-> st, key |-> key]
NoMsg == Msg("none", NoRecord, "none")
\* values of the variables of a specification that is not running
NoPeers == [t \in Tabs |-> NoRecord]
NoInbox == [t \in Tabs |-> <<>>]
NoEvent == [op |-> "none"]
\* an IndexedDBAdapter just constructed: db is null (0), nothing opened,
\* nothing called
NoCalls == [db |-> 0, conns |-> <<>>, calls |-> <<>>, closed |-> FALSE,
            record |-> NoRecord]
\* EchoManager before any call: no entry in the listeners map (entry 0)
NoManager == [sets |-> <<>>, entry |-> 0, closures |-> {}, active |-> {},
              op |-> "none", heard |-> {}, calls |-> 0]
\* no IDBE instance constructed
NoIdbe == [dbName |-> "none"]
\* no backend of TargetSpec in use
NoBackends == <<>>
\* no set() compared yet
NoCompare == [called |-> FALSE]

VARIABLES
  state,          \* Echo.state
  isInitialized,  \* Echo.isInitialized
  storageAdapter, \* Echo.storageAdapter (the target it is bound to, or NoAdapter)
  syncChannel,    \* Echo.syncChannel (channel name, or NoChannel)
  readyPromise,   \* Echo.readyPromise: "resolved" or "pending"
  tasks,          \* asynchronous work in flight, in issue order
  idb,            \* IndexedDB: database name -> record stored under its key
  ls,             \* window.localStorage: key -> string
  lastOp,         \* the last step taken and what it did
  mutated,        \* set/delete changed the state since the last mode transition
  rt,             \* destroy / reconstruct / rebind bookkeeping
  ops,            \* number of set/delete/reset and mode-transition calls so far
  peers,          \* PeerSpec: container id -> fields of that Echo instance
  legacy,         \* LegacySpec: container id -> fields of that legacy Echo instance
  inbox,          \* container id -> messages queued for its BroadcastChannel
  listeners,      \* ListenerSpec: Echo.listeners, in insertion order
  adapter,        \* AdapterSpec: one IndexedDBAdapter, its connections and calls
  eq,             \* EqualSpec: a set() whose next value is compared by isEqual
  backends,      \* TargetSpec: storage target -> record persisted under it
  manager,       \* ManagerSpec: EchoManager.listeners for one key, and the closures handed out
  idbe,          \* IdbeSpec: one IDBE instance, its initialize() runs and the databases
  ev              \* PeerSpec, LegacySpec: the last step taken and running totals

vars == <<state, isInitialized, storageAdapter, syncChannel, readyPromise,
          tasks, idb, ls, lastOp, mutated, rt, ops>>

\* the variables of the other specifications
others == <<peers, legacy, inbox, listeners, adapter, ev, eq, backends,
            manager, idbe>>

(* --------------------------- pure functions ---------------------------- *)

\* { ...u }: the spread of the current state left out
Merge_NoSpread(s, u) == u

\* { ...s, ...u }
Merge(s, u) ==
  [k \in (DOMAIN s) \cup (DOMAIN u) |-> IF k \in DOMAIN u THEN u[k] ELSE s[k]]

\* const n = { ...s }; delete n[key]
Without(s, key) == [k \in (DOMAIN s) \ {key} |-> s[k]]

\* isEqual reduced to its first line, obj1 === obj2, on two distinct objects
IsEqual_RefOnly(obj1, obj2) == FALSE

\* Echo.isEqual on records of primitives
IsEqual(obj1, obj2) ==
  /\ Cardinality(DOMAIN obj1) = Cardinality(DOMAIN obj2)
  /\ \A key \in DOMAIN obj1 : key \in DOMAIN obj2 /\ obj1[key] = obj2[key]

\* the updater functions callers pass to set()
\* "incA" is (s) => ({ ...s, a: ((s.a ?? 0) + 1) % (MaxVal + 1) })
ApplyUpdater(fn, s) ==
  Merge(s, [a |-> IF "a" \in DOMAIN s THEN (s["a"] + 1) % (MaxVal + 1) ELSE 1])

\* JSON.stringify of a record: "{", the key/value pairs in key order, "}"
RECURSIVE Pairs(_, _)
Pairs(v, i) ==
  IF i > Len(KeyOrder) THEN <<>>
  ELSE (IF KeyOrder[i] \in DOMAIN v THEN <<<<KeyOrder[i], v[KeyOrder[i]]>>>> ELSE <<>>)
       \o Pairs(v, i + 1)
Stringify(v) == <<<<"{", 0>>>> \o Pairs(v, 1) \o <<<<"}", 0>>>>

\* JSON.parse of such a string
Parse(s) ==
  LET idx == 2..(Len(s) - 1)
  IN [k \in {s[i][1] : i \in idx} |-> s[CHOOSE i \in idx : s[i][1] = k][2]]

\* LocalStorageAdapter.getItem
LsGetItem(name) == IF ls[name] = <<>> THEN NoRecord ELSE Parse(ls[name])

\* Echo.current: raises unless isInitialized
CurrentRaises == ~isInitialized

(* ------------------------------ tasks ---------------------------------- *)
\* An entry of `tasks`:
\*   t      "get"   IndexedDBAdapter.getItem awaited by hydrate()
\*          "put"   IndexedDBAdapter.setItem (awaited by hydrate() iff hyd)
\*          "lsget" the continuation of hydrate() after LocalStorageAdapter.getItem
\*          "lsput" the continuation of hydrate() after LocalStorageAdapter.setItem
\*   target the adapter the request was issued on
\*   origin the adapter hydrate() was started for
\*   value  the value written, or the value LocalStorageAdapter.getItem returned
\*   hyd    a hydrate() call is suspended on this entry
\*   latest that hydrate() call is the one readyPromise refers to
Task(t, target, origin, value, hyd, latest) ==
  [t |-> t, target |-> target, origin |-> origin, value |-> value,
   hyd |-> hyd, latest |-> latest]

Remove(ts, i) == SubSeq(ts, 1, i - 1) \o SubSeq(ts, i + 1, Len(ts))

Supersede(ts) == [i \in DOMAIN ts |-> [ts[i] EXCEPT !.latest = FALSE]]

HydratePending == \E i \in DOMAIN tasks : tasks[i].hyd

IsMicrotask(e) == e.t \in {"lsget", "lsput"}

MicrotaskPending == \E i \in DOMAIN tasks : IsMicrotask(tasks[i])

\* promise continuations run first-in first-out
FirstMicrotask(i) ==
  /\ i \in DOMAIN tasks
  /\ IsMicrotask(tasks[i])
  /\ \A j \in 1..(i - 1) : ~IsMicrotask(tasks[j])

\* IndexedDB serves the requests on one database in issue order, and its
\* events are delivered only after the pending promise continuations
IdbReady(i) ==
  /\ i \in DOMAIN tasks
  /\ ~IsMicrotask(tasks[i])
  /\ ~MicrotaskPending
  /\ \A j \in 1..(i - 1) :
       ~IsMicrotask(tasks[j]) => tasks[j].target # tasks[i].target

\* the record a backend holds for a target
BackendRecord(target) ==
  IF target.kind = "indexed" THEN idb[target.name]
  ELSE IF target.kind = "localStorage" THEN LsGetItem(target.name)
  ELSE NoRecord

(* -------------------------- bookkeeping -------------------------------- *)
Blank ==
  [op |-> "none", arg |-> NoRecord, replace |-> FALSE, key |-> "none",
   changed |-> FALSE, wrote |-> FALSE, posted |-> FALSE, notified |-> FALSE,
   latest |-> FALSE]

Live == [stage |-> "live", target |-> NoAdapter, v |-> DefaultState, landed |-> FALSE]

RtAfterCall == IF rt.stage \in {"new", "rebound", "back"} THEN Live ELSE rt

(* ----------------------------- Echo.set -------------------------------- *)
\* set() with the isFromSync option ignored
SetOutcome_NoOriginFlag(cur, hasAdapter, hasChannel, nextState, replace, isFromSync, hydrating) ==
  LET finalState == IF replace THEN nextState ELSE Merge(cur, nextState)
      hasChanged == ~IsEqual(cur, finalState)
  IN [state   |-> IF hasChanged THEN finalState ELSE cur,
      changed |-> hasChanged,
      write   |-> hasChanged /\ ~hydrating /\ hasAdapter,
      post    |-> hasChanged /\ hasChannel /\ ~hydrating,
      notify  |-> hasChanged]

\* the outcome of set(nextState, {replace, isFromSync}) on a container whose
\* state is cur, called while isHydrating = hydrating
SetOutcome(cur, hasAdapter, hasChannel, nextState, replace, isFromSync, hydrating) ==
  LET finalState == IF replace THEN nextState ELSE Merge(cur, nextState)
      hasChanged == ~IsEqual(cur, finalState)
  IN [state   |-> IF hasChanged THEN finalState ELSE cur,
      changed |-> hasChanged,
      write   |-> hasChanged /\ ~hydrating /\ hasAdapter,
      post    |-> hasChanged /\ hasChannel /\ ~isFromSync /\ ~hydrating,
      notify  |-> hasChanged]

\* the outcome of delete(key) on a container whose state is cur
DeleteOutcome(cur, hasAdapter, hasChannel, key) ==
  LET newState == Without(cur, key)
      hasChanged == ~IsEqual(cur, newState)
  IN [state   |-> IF hasChanged THEN newState ELSE cur,
      changed |-> hasChanged,
      write   |-> hasChanged /\ hasAdapter,
      post    |-> hasChanged /\ hasChannel,
      notify  |-> hasChanged]

\* the outcome of set(nextState, {replace, isFromSync}) called while
\* isHydrating = hydrating
SetResult(nextState, replace, isFromSync, hydrating) ==
  SetOutcome(state, storageAdapter # NoAdapter, syncChannel # NoChannel,
             nextState, replace, isFromSync, hydrating)

\* delete(key) without the write-through
DeleteResult_NoWrite(key) ==
  LET newState == Without(state, key)
      hasChanged == ~IsEqual(state, newState)
  IN [state   |-> IF hasChanged THEN newState ELSE state,
      changed |-> hasChanged,
      write   |-> FALSE,
      post    |-> hasChanged /\ syncChannel # NoChannel,
      notify  |-> hasChanged]

\* the outcome of delete(key)
DeleteResult(key) ==
  DeleteOutcome(state, storageAdapter # NoAdapter, syncChannel # NoChannel, key)

\* storageAdapter.setItem(value), not awaited
PersistTasks(value) ==
  IF storageAdapter.kind = "indexed"
    THEN Append(tasks, Task("put", storageAdapter, storageAdapter, value, FALSE, FALSE))
    ELSE tasks

PersistLs(value) ==
  IF storageAdapter.kind = "localStorage"
    THEN [ls EXCEPT ![storageAdapter.name] = Stringify(value)]
    ELSE ls

\* the part of set()/delete() after the result has been computed
Commit(r, op) ==
  /\ ops < MaxOps
  /\ ops' = ops + 1
  /\ state' = r.state
  /\ tasks' = IF r.write THEN PersistTasks(r.state) ELSE tasks
  /\ ls' = IF r.write THEN PersistLs(r.state) ELSE ls
  /\ lastOp' = [op EXCEPT !.changed = r.changed, !.wrote = r.write,
                          !.posted = r.post, !.notified = r.notify]
  /\ mutated' = (mutated \/ r.changed)
  /\ rt' = RtAfterCall
  /\ UNCHANGED <<isInitialized, storageAdapter, syncChannel, readyPromise, idb>>
  /\ UNCHANGED others

Set(u, replace) ==
  Commit(SetResult(u, replace, FALSE, FALSE),
         [Blank EXCEPT !.op = "set", !.arg = u, !.replace = replace])

SetFn(fn, replace) ==
  Commit(SetResult(ApplyUpdater(fn, state), replace, FALSE, FALSE),
         [Blank EXCEPT !.op = "setfn", !.arg = ApplyUpdater(fn, state),
                       !.replace = replace, !.key = fn])

Delete(key) ==
  Commit(DeleteResult(key), [Blank EXCEPT !.op = "delete", !.key = key])

\* reset() that assigns the default as hydrate() does, without write-through
\* or broadcast
Reset_AsHydrating ==
  Commit(SetResult(DefaultState, TRUE, FALSE, TRUE),
         [Blank EXCEPT !.op = "reset", !.arg = DefaultState, !.replace = TRUE])

\* reset(): this.set(this.defaultState, { replace: true })
Reset ==
  Commit(SetResult(DefaultState, TRUE, FALSE, FALSE),
         [Blank EXCEPT !.op = "reset", !.arg = DefaultState, !.replace = TRUE])

(* ------------------------- mode transitions ---------------------------- *)
\* Echo.indexed: cleanup(), new IndexedDBAdapter, hydrate() up to its first
\* await, initSync
Indexed(n, sync) ==
  /\ ops < MaxOps
  /\ ops' = ops + 1
  /\ storageAdapter' = IdbTarget(n)
  /\ isInitialized' = FALSE
  /\ syncChannel' = IF sync THEN n ELSE NoChannel
  /\ tasks' = Append(Supersede(tasks),
                     Task("get", IdbTarget(n), IdbTarget(n), NoRecord, TRUE, TRUE))
  /\ readyPromise' = "pending"
  /\ mutated' = FALSE
  /\ rt' = IF rt.stage = "new" /\ rt.target = IdbTarget(n)
             THEN [rt EXCEPT !.stage = "rebound"] ELSE Live
  /\ lastOp' = [Blank EXCEPT !.op = "indexed", !.key = n]
  /\ UNCHANGED <<state, idb, ls>>
  /\ UNCHANGED others

\* Echo.localStorage: cleanup(), new LocalStorageAdapter, hydrate() up to its
\* first await (the read of window.localStorage happens in the call), initSync
LocalStorage(n, sync) ==
  /\ ops < MaxOps
  /\ ops' = ops + 1
  /\ storageAdapter' = LsTarget(n)
  /\ isInitialized' = FALSE
  /\ syncChannel' = IF sync THEN n ELSE NoChannel
  /\ tasks' = Append(Supersede(tasks),
                     Task("lsget", LsTarget(n), LsTarget(n), LsGetItem(n), TRUE, TRUE))
  /\ readyPromise' = "pending"
  /\ mutated' = FALSE
  /\ rt' = IF rt.stage = "new" /\ rt.target = LsTarget(n)
             THEN [rt EXCEPT !.stage = "rebound"] ELSE Live
  /\ lastOp' = [Blank EXCEPT !.op = "localStorage", !.key = n]
  /\ UNCHANGED <<state, idb, ls>>
  /\ UNCHANGED others

\* Echo.temporary: cleanup(), readyPromise = Promise.resolve()
Temporary ==
  /\ ops < MaxOps
  /\ ops' = ops + 1
  /\ storageAdapter' = NoAdapter
  /\ isInitialized' = FALSE
  /\ syncChannel' = NoChannel
  /\ tasks' = Supersede(tasks)
  /\ readyPromise' = "resolved"
  /\ mutated' = FALSE
  /\ rt' = Live
  /\ lastOp' = [Blank EXCEPT !.op = "temporary"]
  /\ UNCHANGED <<state, idb, ls>>
  /\ UNCHANGED others

\* Echo.destroy: cleanup(), then storageAdapter?.destroy() on the adapter
\* field that cleanup() has just set to null
Destroy ==
  /\ ops' = ops
  /\ storageAdapter' = NoAdapter
  /\ isInitialized' = FALSE
  /\ syncChannel' = NoChannel
  /\ rt' = [stage  |-> "destroyed",
            target |-> storageAdapter,
            v      |-> IF storageAdapter = NoAdapter THEN DefaultState ELSE state,
            landed |-> /\ storageAdapter # NoAdapter
                       /\ tasks = <<>>
                       /\ isInitialized
                       /\ BackendRecord(storageAdapter) = state]
  /\ lastOp' = [Blank EXCEPT !.op = "destroy"]
  /\ UNCHANGED <<state, readyPromise, tasks, idb, ls, mutated>>
  /\ UNCHANGED others

\* new Echo(defaultState), replacing a destroyed instance.  The requests the
\* old instance has issued stay in flight; nothing awaits them any more.
IsWrite(e) == e.t = "put"
Orphan(ts) ==
  LET w == SelectSeq(ts, IsWrite)
  IN [i \in DOMAIN w |-> [w[i] EXCEPT !.hyd = FALSE, !.latest = FALSE]]

New ==
  /\ rt.stage = "destroyed"
  /\ ops' = ops
  /\ state' = DefaultState
  /\ isInitialized' = FALSE
  /\ storageAdapter' = NoAdapter
  /\ syncChannel' = NoChannel
  /\ readyPromise' = "resolved"
  /\ tasks' = Orphan(tasks)
  /\ mutated' = FALSE
  /\ rt' = IF rt.target = NoAdapter THEN Live ELSE [rt EXCEPT !.stage = "new"]
  /\ lastOp' = [Blank EXCEPT !.op = "new"]
  /\ UNCHANGED <<idb, ls>>
  /\ UNCHANGED others

(* ---------------------------- Echo.hydrate ----------------------------- *)
\* readyPromise after the hydrate() call suspended on e has returned
Settle(e) == IF e.latest THEN "resolved" ELSE readyPromise

\* the .then callback indexed() attaches to the hydrate promise
ThenNotifies(e, initialized) == e.origin.kind = "indexed" /\ initialized

\* hydrate() resumes with a saved state: isHydrating = true; set(savedState);
\* isHydrating = false; isInitialized = true
HydrateFound(e, saved, rest) ==
  LET r == SetResult(saved, FALSE, FALSE, TRUE)
  IN /\ state' = r.state
     /\ isInitialized' = TRUE
     /\ readyPromise' = Settle(e)
     /\ tasks' = rest
     /\ lastOp' = [Blank EXCEPT !.op = "hydrate_found", !.key = e.origin.name, !.arg = saved,
                                !.changed = r.changed, !.latest = e.latest,
                                !.notified = r.notify \/ ThenNotifies(e, TRUE)]
     /\ UNCHANGED <<storageAdapter, syncChannel, ls, mutated, rt, ops>>
     /\ UNCHANGED others

\* hydrate() resumes without a saved state: state = {...defaultState};
\* await this.storageAdapter.setItem(this.state)
HydrateMissing(e, rest) ==
  /\ state' = DefaultState
  /\ IF storageAdapter = NoAdapter
       THEN \* TypeError on the null adapter, caught by hydrate()
            /\ tasks' = rest
            /\ readyPromise' = Settle(e)
            /\ ls' = ls
            /\ lastOp' = [Blank EXCEPT !.op = "hydrate_failed", !.key = e.origin.name, !.latest = e.latest,
                                       !.notified = ThenNotifies(e, isInitialized)]
       ELSE /\ tasks' = Append(rest,
                  Task(IF storageAdapter.kind = "indexed" THEN "put" ELSE "lsput",
                       storageAdapter, e.origin, DefaultState, TRUE, e.latest))
            /\ readyPromise' = readyPromise
            /\ ls' = PersistLs(DefaultState)
            /\ lastOp' = [Blank EXCEPT !.op = "hydrate_default_write", !.key = e.origin.name,
                                       !.latest = e.latest, !.wrote = TRUE]
  /\ UNCHANGED <<isInitialized, storageAdapter, syncChannel, mutated, rt, ops>>
  /\ UNCHANGED others

\* hydrate() resumes after the write of the default: isInitialized = true
HydrateDone(e, rest) ==
  /\ isInitialized' = TRUE
  /\ readyPromise' = Settle(e)
  /\ tasks' = rest
  /\ lastOp' = [Blank EXCEPT !.op = "hydrate_default", !.key = e.origin.name, !.latest = e.latest,
                             !.notified = ThenNotifies(e, TRUE)]
  /\ UNCHANGED <<state, storageAdapter, syncChannel, ls, mutated, rt, ops>>
  /\ UNCHANGED others

\* an awaited adapter call rejects: the catch block of hydrate() logs it
HydrateFail(e, rest) ==
  /\ readyPromise' = Settle(e)
  /\ tasks' = rest
  /\ lastOp' = [Blank EXCEPT !.op = "hydrate_failed", !.key = e.origin.name, !.latest = e.latest,
                             !.notified = ThenNotifies(e, isInitialized)]
  /\ UNCHANGED <<state, isInitialized, storageAdapter, syncChannel, ls, mutated, rt, ops>>
  /\ UNCHANGED others

(* ----------------------- backend completions --------------------------- *)
\* IndexedDBAdapter.getItem resolves with the stored record
IdbGetFound(i) ==
  /\ IdbReady(i)
  /\ tasks[i].t = "get"
  /\ idb[tasks[i].target.name] # NoRecord
  /\ HydrateFound(tasks[i], idb[tasks[i].target.name], Remove(tasks, i))
  /\ idb' = idb

\* IndexedDBAdapter.getItem resolves with undefined
IdbGetMissing(i) ==
  /\ IdbReady(i)
  /\ tasks[i].t = "get"
  /\ idb[tasks[i].target.name] = NoRecord
  /\ HydrateMissing(tasks[i], Remove(tasks, i))
  /\ idb' = idb

\* IndexedDBAdapter.init or getItem rejects
IdbGetFail(i) ==
  /\ IdbReady(i)
  /\ tasks[i].t = "get"
  /\ HydrateFail(tasks[i], Remove(tasks, i))
  /\ idb' = idb

\* a rejected write that resets the readiness flag
WriteSettled_Surfaces(i, op) ==
  /\ tasks' = Remove(tasks, i)
  /\ isInitialized' = (isInitialized /\ op # "write_failed")
  /\ lastOp' = [Blank EXCEPT !.op = op, !.key = tasks[i].target.name]
  /\ UNCHANGED <<state, storageAdapter, syncChannel, readyPromise,
                 ls, mutated, rt, ops>>
  /\ UNCHANGED others

\* a write nothing awaits has settled
WriteSettled(i, op) ==
  /\ tasks' = Remove(tasks, i)
  /\ lastOp' = [Blank EXCEPT !.op = op, !.key = tasks[i].target.name]
  /\ UNCHANGED <<state, isInitialized, storageAdapter, syncChannel, readyPromise,
                 ls, mutated, rt, ops>>
  /\ UNCHANGED others

\* IndexedDBAdapter.setItem resolves: the record is stored
IdbPutDone(i) ==
  /\ IdbReady(i)
  /\ tasks[i].t = "put"
  /\ idb' = [idb EXCEPT ![tasks[i].target.name] = tasks[i].value]
  /\ IF tasks[i].hyd
       THEN HydrateDone(tasks[i], Remove(tasks, i))
       ELSE WriteSettled(i, "write_landed")

\* IndexedDBAdapter.setItem rejects
IdbPutFail(i) ==
  /\ IdbReady(i)
  /\ tasks[i].t = "put"
  /\ idb' = idb
  /\ IF tasks[i].hyd
       THEN HydrateFail(tasks[i], Remove(tasks, i))
       ELSE WriteSettled(i, "write_failed")

\* the continuation of hydrate() after LocalStorageAdapter.getItem
LsGetCont(i) ==
  /\ FirstMicrotask(i)
  /\ tasks[i].t = "lsget"
  /\ IF tasks[i].value # NoRecord
       THEN HydrateFound(tasks[i], tasks[i].value, Remove(tasks, i))
       ELSE HydrateMissing(tasks[i], Remove(tasks, i))
  /\ idb' = idb

\* the continuation of hydrate() after LocalStorageAdapter.setItem
LsPutCont(i) ==
  /\ FirstMicrotask(i)
  /\ tasks[i].t = "lsput"
  /\ HydrateDone(tasks[i], Remove(tasks, i))
  /\ idb' = idb

(* --------------------------- specification ----------------------------- *)
\* records a backend may hold from an earlier session
InitRecords == {NoRecord, [a |-> 1]}

Init ==
  /\ state = DefaultState
  /\ isInitialized = FALSE
  /\ storageAdapter = NoAdapter
  /\ syncChannel = NoChannel
  /\ readyPromise = "resolved"
  /\ tasks = <<>>
  /\ \E r \in InitRecords : idb = [n \in DbNames |-> IF n = "A" THEN r ELSE NoRecord]
  /\ ls = [n \in LsNames |-> <<>>]
  /\ lastOp = [Blank EXCEPT !.op = "new"]
  /\ mutated = FALSE
  /\ rt = Live
  /\ ops = 0
  /\ peers = NoPeers
  /\ legacy = NoPeers
  /\ inbox = NoInbox
  /\ listeners = <<>>
  /\ adapter = NoCalls
  /\ idbe = NoIdbe
  /\ manager = NoManager
  /\ backends = NoBackends
  /\ eq = NoCompare
  /\ ev = NoEvent

Next ==
  \/ \E u \in Partials, replace \in BOOLEAN : Set(u, replace)
  \/ \E fn \in Updaters, replace \in BOOLEAN : SetFn(fn, replace)
  \/ \E key \in Keys : Delete(key)
  \/ Reset
  \/ \E c \in IndexedConfigs : Indexed(c.name, c.sync)
  \/ \E c \in LsConfigs : LocalStorage(c.name, c.sync)
  \/ Temporary
  \/ Destroy
  \/ New
  \/ \E i \in DOMAIN tasks : IdbGetFound(i)
  \/ \E i \in DOMAIN tasks : IdbGetMissing(i)
  \/ \E i \in DOMAIN tasks : IdbGetFail(i)
  \/ \E i \in DOMAIN tasks : IdbPutDone(i)
  \/ \E i \in DOMAIN tasks : IdbPutFail(i)
  \/ \E i \in DOMAIN tasks : LsGetCont(i)
  \/ \E i \in DOMAIN tasks : LsPutCont(i)

Spec == Init /\ [][Next]_vars

TypeOK ==
  /\ state \in StateVals
  /\ isInitialized \in BOOLEAN
  /\ readyPromise \in {"resolved", "pending"}
  /\ ops \in 0..MaxOps

(* ------------------- SwitchSpec: switching the key --------------------- *)
\* the ids callers pass to switch(): the key names and the empty string
Ids == DbNames \cup {""}

\* Echo.switch(name) throws unless the container is bound to an indexed target
SwitchThrows == storageAdapter.kind # "indexed"

\* Echo.switch(name) on an indexed target: the database and the object store
\* are kept and the key is replaced; the binding to the old key is torn down,
\* the container is Pending and the new key is hydrated
SwitchTarget(id) ==
  /\ storageAdapter' = IdbTarget(id)
  /\ isInitialized' = FALSE
  /\ syncChannel' = IF syncChannel # NoChannel THEN id ELSE NoChannel
  /\ tasks' = Append(Supersede(tasks),
                     Task("get", IdbTarget(id), IdbTarget(id), NoRecord, TRUE, TRUE))
  /\ readyPromise' = "pending"
  /\ mutated' = FALSE
  /\ UNCHANGED <<state, idb, ls>>

\* switch bookkeeping: the key left behind and the value it held, and whether
\* the container has come back to it
RtAfterSwitch(id) ==
  IF rt.stage = "away"
    THEN IF id = rt.target.name THEN [rt EXCEPT !.stage = "back"] ELSE rt
    ELSE [stage  |-> IF id = storageAdapter.name THEN "live" ELSE "away",
          target |-> storageAdapter,
          v      |-> state,
          landed |-> /\ tasks = <<>>
                     /\ isInitialized
                     /\ BackendRecord(storageAdapter) = state]

\* EchoItem.switch with a catch block that swallows the error
ItemSwitch_Swallow(id) ==
  /\ ops < MaxOps
  /\ ops' = ops + 1
  /\ IF id = "" \/ SwitchThrows
       THEN /\ lastOp' = [Blank EXCEPT !.op = "switch", !.key = id]
            /\ rt' = rt
            /\ UNCHANGED <<state, isInitialized, storageAdapter, syncChannel,
                           readyPromise, tasks, idb, ls, mutated>>
       ELSE /\ SwitchTarget(id)
            /\ rt' = RtAfterSwitch(id)
            /\ lastOp' = [Blank EXCEPT !.op = "switch", !.key = id]
  /\ UNCHANGED others

\* EchoItem.switch(id): rejects on an empty id; calls store.switch(id) and
\* awaits store.ready(); an error thrown by either is thrown again
ItemSwitch(id) ==
  /\ ops < MaxOps
  /\ ops' = ops + 1
  /\ IF id = "" \/ SwitchThrows
       THEN /\ lastOp' = [Blank EXCEPT !.op = "switch_rejected", !.key = id]
            /\ rt' = rt
            /\ UNCHANGED <<state, isInitialized, storageAdapter, syncChannel,
                           readyPromise, tasks, idb, ls, mutated>>
       ELSE /\ SwitchTarget(id)
            /\ rt' = RtAfterSwitch(id)
            /\ lastOp' = [Blank EXCEPT !.op = "switch", !.key = id]
  /\ UNCHANGED others

\* values a container bound to key "A" holds with its write landed
SettledValues == {[a |-> 1, b |-> 0], [a |-> 1]}

\* new Echo(DefaultState).indexed({name: "A", sync: true}), hydrated, after
\* set/delete calls whose writes have landed
SwitchInit ==
  /\ \E v \in SettledValues, r \in InitRecords :
       /\ state = v
       /\ idb = [n \in DbNames |-> IF n = "A" THEN v ELSE r]
  /\ isInitialized = TRUE
  /\ storageAdapter = IdbTarget("A")
  /\ syncChannel = "A"
  /\ readyPromise = "resolved"
  /\ tasks = <<>>
  /\ ls = [n \in LsNames |-> <<>>]
  /\ lastOp = [Blank EXCEPT !.op = "write_landed", !.key = "A"]
  /\ mutated = TRUE
  /\ rt = Live
  /\ ops = 0
  /\ peers = NoPeers
  /\ legacy = NoPeers
  /\ inbox = NoInbox
  /\ listeners = <<>>
  /\ adapter = NoCalls
  /\ idbe = NoIdbe
  /\ manager = NoManager
  /\ backends = NoBackends
  /\ eq = NoCompare
  /\ ev = NoEvent

SwitchNext ==
  \/ \E u \in Partials, replace \in BOOLEAN : Set(u, replace)
  \/ \E key \in Keys : Delete(key)
  \/ \E c \in LsConfigs : LocalStorage(c.name, c.sync)
  \/ Temporary
  \/ \E id \in Ids : ItemSwitch(id)
  \/ \E i \in DOMAIN tasks : IdbGetFound(i)
  \/ \E i \in DOMAIN tasks : IdbGetMissing(i)
  \/ \E i \in DOMAIN tasks : IdbGetFail(i)
  \/ \E i \in DOMAIN tasks : IdbPutDone(i)
  \/ \E i \in DOMAIN tasks : IdbPutFail(i)
  \/ \E i \in DOMAIN tasks : LsGetCont(i)
  \/ \E i \in DOMAIN tasks : LsPutCont(i)

SwitchSpec == SwitchInit /\ [][SwitchNext]_vars

(* ---------------- PeerSpec: two containers, one channel ---------------- *)
MaxCalls == 3

\* the variables PeerSpec changes, and the ones it leaves alone
peerVars == <<peers, inbox, ev, ls>>
peerIdle == <<state, isInitialized, storageAdapter, syncChannel,
              readyPromise, tasks, idb, lastOp, mutated, rt, ops, legacy,
              listeners, adapter, eq, backends, manager, idbe>>

\* a container after new Echo(DefaultState).localStorage({name: SharedName,
\* sync: true}) and the completion of its hydrate
ReadyPeer ==
  [state |-> DefaultState, isInitialized |-> TRUE, storageAdapter |-> TRUE,
   syncChannel |-> TRUE, listeners |-> {}]

\* ev between two steps of PeerSpec:
\*   op, tab   the step and the container it ran on
\*   msg       the message the step handled
\*   changed   the step changed the in-memory value
\*   posts     postMessage calls made by the step
\*   passes    listeners.forEach passes made by the step
\*   heard     the listeners those passes invoked
\*   calls     API calls so far
\*   sent      postMessage calls so far
\*   changes   state-changing set/delete calls so far on a container whose
\*             channel was open
\*   stale     per container, the listeners registered when destroy() was
\*             called and not subscribed or unsubscribed since
PeerEvent(op, t, m, r, hasChannel, hasCalled) ==
  [op |-> op, tab |-> t, msg |-> m, changed |-> r.changed,
   posts |-> IF r.post THEN 1 ELSE 0,
   passes |-> IF r.notify THEN 1 ELSE 0,
   heard |-> IF r.notify THEN peers[t].listeners ELSE {},
   calls |-> ev.calls + (IF hasCalled THEN 1 ELSE 0),
   sent |-> ev.sent + (IF r.post THEN 1 ELSE 0),
   changes |-> ev.changes + (IF hasCalled /\ r.changed /\ hasChannel THEN 1 ELSE 0),
   stale |-> ev.stale]

Quiet == [changed |-> FALSE, post |-> FALSE, notify |-> FALSE]

\* BroadcastChannel.postMessage by container t: queued for every other open
\* channel object of that name
Post(t, m) ==
  [x \in Tabs |-> IF x # t /\ peers[x].syncChannel THEN Append(inbox[x], m)
                  ELSE inbox[x]]

\* LocalStorageAdapter.setItem(value) on the shared target
PeerPersist(store, value) == [store EXCEPT ![SharedName] = Stringify(value)]

\* t.set(u, {replace})
PeerSet(t, u, replace) ==
  LET c == peers[t]
      r == SetOutcome(c.state, c.storageAdapter, c.syncChannel, u, replace, FALSE, FALSE)
  IN /\ ev.calls < MaxCalls
     /\ peers' = [peers EXCEPT ![t].state = r.state]
     /\ ls' = IF r.write THEN PeerPersist(ls, r.state) ELSE ls
     /\ inbox' = IF r.post THEN Post(t, Msg("state-update", r.state, "none")) ELSE inbox
     /\ ev' = PeerEvent("set", t, NoMsg, r, c.syncChannel, TRUE)
     /\ UNCHANGED peerIdle

\* t.delete(key)
PeerDelete(t, key) ==
  LET c == peers[t]
      r == DeleteOutcome(c.state, c.storageAdapter, c.syncChannel, key)
  IN /\ ev.calls < MaxCalls
     /\ peers' = [peers EXCEPT ![t].state = r.state]
     /\ ls' = IF r.write THEN PeerPersist(ls, r.state) ELSE ls
     /\ inbox' = IF r.post THEN Post(t, Msg("state-delete", NoRecord, key)) ELSE inbox
     /\ ev' = PeerEvent("delete", t, NoMsg, r, c.syncChannel, TRUE)
     /\ UNCHANGED peerIdle

\* t.subscribe(l) / t.addListener(l)
PeerSubscribe(t, l) ==
  /\ ev.calls < MaxCalls
  /\ peers' = [peers EXCEPT ![t].listeners = @ \cup {l}]
  /\ ev' = [PeerEvent("subscribe", t, NoMsg, Quiet, FALSE, TRUE)
              EXCEPT !.stale[t] = @ \ {l}]
  /\ UNCHANGED <<inbox, ls>>
  /\ UNCHANGED peerIdle

\* the function subscribe(l) returned / t.removeListener(l)
PeerUnsubscribe(t, l) ==
  /\ ev.calls < MaxCalls
  /\ l \in peers[t].listeners
  /\ peers' = [peers EXCEPT ![t].listeners = @ \ {l}]
  /\ ev' = [PeerEvent("unsubscribe", t, NoMsg, Quiet, FALSE, TRUE)
              EXCEPT !.stale[t] = @ \ {l}]
  /\ UNCHANGED <<inbox, ls>>
  /\ UNCHANGED peerIdle

\* t.destroy(): cleanup() closes the channel and the adapter and clears
\* isInitialized; storageAdapter?.destroy() then finds no adapter.  A closed
\* channel object receives no further message events.
PeerDestroy(t) ==
  /\ ev.calls < MaxCalls
  /\ peers' = [peers EXCEPT ![t].syncChannel = FALSE, ![t].storageAdapter = FALSE,
                            ![t].isInitialized = FALSE]
  /\ inbox' = [inbox EXCEPT ![t] = <<>>]
  /\ ev' = [PeerEvent("destroy", t, NoMsg, Quiet, FALSE, TRUE)
              EXCEPT !.stale[t] = peers[t].listeners]
  /\ ls' = ls
  /\ UNCHANGED peerIdle

\* syncChannel.onmessage on container t:
\*   state-update: set(data.state, {isFromSync, replace}); setItem(data.state)
\*   state-delete: set(s => s without data.key, {isFromSync, replace});
\*                 setItem(this.state)
PeerDeliver(t) ==
  /\ inbox[t] # <<>>
  /\ LET c == peers[t]
         m == Head(inbox[t])
         nextState == IF m.type = "state-update" THEN m.state
                      ELSE Without(c.state, m.key)
         r == SetOutcome(c.state, c.storageAdapter, c.syncChannel,
                         nextState, TRUE, TRUE, FALSE)
         afterSet == IF r.write THEN PeerPersist(ls, r.state) ELSE ls
         queued == [inbox EXCEPT ![t] = Tail(@)]
     IN /\ peers' = [peers EXCEPT ![t].state = r.state]
        /\ ls' = IF c.storageAdapter
                   THEN PeerPersist(afterSet,
                                    IF m.type = "state-update" THEN m.state ELSE r.state)
                   ELSE afterSet
        /\ inbox' = IF r.post
                      THEN [x \in Tabs |->
                              IF x # t /\ peers[x].syncChannel
                                THEN Append(queued[x], Msg("state-update", r.state, "none"))
                                ELSE queued[x]]
                      ELSE queued
        /\ ev' = PeerEvent("deliver", t, m, r, c.syncChannel, FALSE)
  /\ UNCHANGED peerIdle

PeerInit ==
  /\ peers = [t \in Tabs |-> ReadyPeer]
  /\ inbox = NoInbox
  /\ ls = [n \in LsNames |-> Stringify(DefaultState)]
  /\ ev = [op |-> "new", tab |-> "none", msg |-> NoMsg, changed |-> FALSE,
           posts |-> 0, passes |-> 0, heard |-> {}, calls |-> 0, sent |-> 0,
           changes |-> 0, stale |-> [t \in Tabs |-> {}]]
  /\ state = DefaultState
  /\ isInitialized = FALSE
  /\ storageAdapter = NoAdapter
  /\ syncChannel = NoChannel
  /\ readyPromise = "resolved"
  /\ tasks = <<>>
  /\ idb = [n \in DbNames |-> NoRecord]
  /\ lastOp = Blank
  /\ mutated = FALSE
  /\ rt = Live
  /\ ops = 0
  /\ legacy = NoPeers
  /\ listeners = <<>>
  /\ adapter = NoCalls
  /\ idbe = NoIdbe
  /\ manager = NoManager
  /\ backends = NoBackends
  /\ eq = NoCompare

PeerNext ==
  \/ \E t \in Tabs, u \in Partials, replace \in BOOLEAN : PeerSet(t, u, replace)
  \/ \E t \in Tabs, key \in Keys : PeerDelete(t, key)
  \/ \E t \in Tabs, l \in Listeners : PeerSubscribe(t, l)
  \/ \E t \in Tabs, l \in Listeners : PeerUnsubscribe(t, l)
  \/ \E t \in Tabs : PeerDestroy(t)
  \/ \E t \in Tabs : PeerDeliver(t)

PeerSpec == PeerInit /\ [][PeerNext]_peerVars

(* ------------- LegacySpec: the store-based Echo (src/Echo.ts) ---------- *)
\* the variables LegacySpec changes, and the ones it leaves alone
legacyVars == <<legacy, inbox, ev, ls>>
legacyIdle == <<state, isInitialized, storageAdapter, syncChannel,
                readyPromise, tasks, idb, lastOp, mutated, rt, ops, peers,
                listeners, adapter, eq, backends, manager, idbe>>

\* lastSyncHash = null, and the digest of no message
NoHash == <<>>

\* Echo.getStateHash: JSON.stringify(state)
GetStateHash(st) == Stringify(st)

\* store.setState(partial, replace) of the state store
StoreSetState(cur, partial, replace) == IF replace THEN partial ELSE Merge(cur, partial)

\* broadcastState without the comparison with lastSyncHash
BroadcastState_NoDigest(c, newState) ==
  [post |-> c.channel /\ c.sync,
   lastSyncHash |-> IF c.channel /\ c.sync THEN GetStateHash(newState)
                    ELSE c.lastSyncHash]

\* Echo.broadcastState(newState) on a container with fields c: whether it
\* posts, and lastSyncHash afterwards
BroadcastState(c, newState) ==
  LET hash == GetStateHash(newState)
      sends == c.channel /\ c.sync /\ hash # c.lastSyncHash
  IN [post |-> sends,
      lastSyncHash |-> IF sends THEN hash ELSE c.lastSyncHash]

\* postMessage by legacy container t; the key of a legacy message is not
\* part of the message: it marks the ones initializeSync() posts ("announce")
LegacyPost(t, m) ==
  [x \in Tabs |-> IF x # t /\ legacy[x].channel THEN Append(inbox[x], m)
                  ELSE inbox[x]]

\* ev between two steps of LegacySpec:
\*   op, tab   the step and the container it ran on
\*   posts     postMessage calls made by the step
\*   digest    the digest of the message the step posted or received
\*   applied   the step applied a received message to the store
\*   calls     API calls so far
\*   last      per container, the digest of the last message it sent or
\*             received
\*   session   the same, counted from the last time its sync was enabled
\*   onChange  calls of options.onChange made by the step, with the
\*             arguments (arg, old) of the last one
LegacyEvent(op, t, posts, digest, applied, hasCalled) ==
  [op |-> op, tab |-> t, posts |-> posts, digest |-> digest, applied |-> applied,
   calls |-> ev.calls + (IF hasCalled THEN 1 ELSE 0),
   last |-> IF digest # NoHash THEN [ev.last EXCEPT ![t] = digest] ELSE ev.last,
   session |-> IF digest # NoHash THEN [ev.session EXCEPT ![t] = digest]
               ELSE ev.session,
   onChange |-> 0, arg |-> NoRecord, old |-> NoRecord]

\* the persist middleware of the store writes the new state
LegacyPersist(value) == [ls EXCEPT ![SharedName] = Stringify(value)]

\* Echo.set(partial, replace)
LegacySet(t, partial, replace) ==
  LET c == legacy[t]
      newState == StoreSetState(c.store, partial, replace)
      b == BroadcastState(c, newState)
  IN /\ ev.calls < MaxCalls
     /\ legacy' = [legacy EXCEPT ![t].store = newState,
                                 ![t].lastSyncHash = b.lastSyncHash]
     /\ ls' = LegacyPersist(newState)
     /\ inbox' = IF b.post THEN LegacyPost(t, Msg("state-update", newState, "none"))
                 ELSE inbox
     /\ ev' = [LegacyEvent("set", t, IF b.post THEN 1 ELSE 0,
                           IF b.post THEN GetStateHash(newState) ELSE NoHash, FALSE, TRUE)
                 EXCEPT !.onChange = 1, !.arg = newState, !.old = c.store]
     /\ UNCHANGED legacyIdle

\* Echo.delete(key): store.setState(s => s without key, true)
LegacyDelete(t, key) ==
  LET newState == StoreSetState(legacy[t].store, Without(legacy[t].store, key), TRUE)
  IN /\ ev.calls < MaxCalls
     /\ legacy' = [legacy EXCEPT ![t].store = newState]
     /\ ls' = LegacyPersist(newState)
     /\ inbox' = inbox
     /\ ev' = LegacyEvent("delete", t, 0, NoHash, FALSE, TRUE)
     /\ UNCHANGED legacyIdle

\* Echo.reset(): store.setState(defaultValue, true)
LegacyReset(t) ==
  /\ ev.calls < MaxCalls
  /\ legacy' = [legacy EXCEPT ![t].store = StoreSetState(@, DefaultState, TRUE)]
  /\ ls' = LegacyPersist(DefaultState)
  /\ inbox' = inbox
  /\ ev' = [LegacyEvent("reset", t, 0, NoHash, FALSE, TRUE)
              EXCEPT !.onChange = 1, !.arg = DefaultState, !.old = legacy[t].store]
  /\ UNCHANGED legacyIdle

\* Echo.sync(enabled)
LegacySync(t, enabled) ==
  LET c == legacy[t]
      opened == [c EXCEPT !.channel = TRUE]
      b == BroadcastState(opened, c.store)
  IN /\ ev.calls < MaxCalls
     /\ IF enabled = c.channel
          THEN /\ UNCHANGED <<legacy, inbox>>
               /\ ev' = LegacyEvent("sync_same", t, 0, NoHash, FALSE, TRUE)
        ELSE IF enabled
          THEN \* initializeSync(): open the channel, post the current state
               /\ legacy' = [legacy EXCEPT ![t] = [opened EXCEPT !.lastSyncHash = b.lastSyncHash]]
               /\ inbox' = IF b.post
                             THEN LegacyPost(t, Msg("state-update", c.store, "announce"))
                             ELSE inbox
               /\ ev' = LegacyEvent("sync_on", t, IF b.post THEN 1 ELSE 0,
                                    IF b.post THEN GetStateHash(c.store) ELSE NoHash,
                                    FALSE, TRUE)
          ELSE \* channel.close(); channel = null; lastSyncHash = null
               /\ legacy' = [legacy EXCEPT ![t].channel = FALSE,
                                           ![t].lastSyncHash = NoHash]
               /\ inbox' = [inbox EXCEPT ![t] = <<>>]
               /\ ev' = [LegacyEvent("sync_off", t, 0, NoHash, FALSE, TRUE)
                           EXCEPT !.session[t] = NoHash]
     /\ ls' = ls
     /\ UNCHANGED legacyIdle

\* channel.onmessage on container t
LegacyDeliver(t) ==
  /\ inbox[t] # <<>>
  /\ LET c == legacy[t]
         m == Head(inbox[t])
         hash == GetStateHash(m.state)
         applies == hash # c.lastSyncHash
     IN /\ legacy' = IF applies
                       THEN [legacy EXCEPT ![t].lastSyncHash = hash,
                                           ![t].store = StoreSetState(@, m.state, TRUE)]
                       ELSE legacy
        /\ ls' = IF applies THEN LegacyPersist(m.state) ELSE ls
        /\ inbox' = [inbox EXCEPT ![t] = Tail(@)]
        /\ ev' = LegacyEvent("deliver", t, 0, hash, applies, FALSE)
  /\ UNCHANGED legacyIdle

\* new Echo(DefaultState, {name: SharedName, sync, onChange}) for container A, then for
\* container B: each constructor with sync opens the channel and posts the
\* initial state to the channels already open
LegacyInit ==
  /\ \E o \in [Tabs -> BOOLEAN] :
       /\ legacy = [t \in Tabs |->
                      [store |-> DefaultState, channel |-> o[t], sync |-> o[t],
                       lastSyncHash |-> IF o[t] THEN GetStateHash(DefaultState)
                                        ELSE NoHash]]
       /\ inbox = [t \in Tabs |->
                     IF t = "A" /\ o["A"] /\ o["B"]
                       THEN <<Msg("state-update", DefaultState, "announce")>>
                       ELSE <<>>]
       /\ ev = [op |-> "new", tab |-> "none", posts |-> 0, digest |-> NoHash,
                applied |-> FALSE, calls |-> 0,
                last |-> [t \in Tabs |->
                            IF o[t] THEN GetStateHash(DefaultState) ELSE NoHash],
                session |-> [t \in Tabs |->
                               IF o[t] THEN GetStateHash(DefaultState) ELSE NoHash],
                onChange |-> 0, arg |-> NoRecord, old |-> NoRecord]
  /\ ls = [n \in LsNames |-> <<>>]
  /\ state = DefaultState
  /\ isInitialized = FALSE
  /\ storageAdapter = NoAdapter
  /\ syncChannel = NoChannel
  /\ readyPromise = "resolved"
  /\ tasks = <<>>
  /\ idb = [n \in DbNames |-> NoRecord]
  /\ lastOp = Blank
  /\ mutated = FALSE
  /\ rt = Live
  /\ ops = 0
  /\ peers = NoPeers
  /\ listeners = <<>>
  /\ adapter = NoCalls
  /\ idbe = NoIdbe
  /\ manager = NoManager
  /\ backends = NoBackends
  /\ eq = NoCompare

LegacyNext ==
  \/ \E t \in Tabs, u \in Partials, replace \in BOOLEAN : LegacySet(t, u, replace)
  \/ \E t \in Tabs, key \in Keys : LegacyDelete(t, key)
  \/ \E t \in Tabs : LegacyReset(t)
  \/ \E t \in Tabs, enabled \in BOOLEAN : LegacySync(t, enabled)
  \/ \E t \in Tabs : LegacyDeliver(t)

LegacySpec == LegacyInit /\ [][LegacyNext]_legacyVars

(* ------------- ListenerSpec: the registry and a notification ----------- *)
\* listeners that call addListener(g) / removeListener(g) when invoked
Reentrant == {"addG", "delG"}
AllListeners == Listeners \cup Reentrant

Range(seq) == {seq[i] : i \in 1..Len(seq)}

\* position of l in the registry (0 when absent)
IndexOf(seq, l) ==
  IF l \in Range(seq) THEN CHOOSE i \in 1..Len(seq) : seq[i] = l ELSE 0

\* Set.prototype.add: an entry already present keeps its place
SetAdd(reg, l) == IF l \in Range(reg) THEN reg ELSE Append(reg, l)

\* Set.prototype.delete
SetDelete(reg, l) == SelectSeq(reg, LAMBDA x : x # l)

\* what the body of listener l does to the registry
Invoke(l, reg) ==
  CASE l = "addG" -> SetAdd(reg, "g")
    [] l = "delG" -> SetDelete(reg, "g")
    [] OTHER      -> reg

\* early: the listeners removed before they had been invoked
EmptyPass == [heard |-> <<>>, removed |-> {}, added |-> {}, early |-> {}]

\* Set.prototype.forEach from entry i on: entries are visited in insertion
\* order, an entry deleted before it is reached is not visited, an entry
\* added before the iteration ends is visited
RECURSIVE ForEach(_, _, _)
ForEach(reg, i, acc) ==
  IF i > Len(reg)
  THEN [listeners |-> reg, heard |-> acc.heard,
        removed |-> acc.removed, added |-> acc.added, early |-> acc.early]
  ELSE LET l    == reg[i]
           reg2 == Invoke(l, reg)
       IN ForEach(reg2, IndexOf(reg2, l) + 1,
                  [heard   |-> Append(acc.heard, l),
                   removed |-> acc.removed \cup (Range(reg) \ Range(reg2)),
                   added   |-> acc.added \cup (Range(reg2) \ Range(reg)),
                   early   |-> acc.early \cup
                               ((Range(reg) \ Range(reg2)) \ (Range(acc.heard) \cup {l}))])

\* a pass that stops after the first listener
NotifyPass_FirstOnly(reg) ==
  IF reg = <<>> THEN ForEach(reg, 1, EmptyPass)
  ELSE [listeners |-> Invoke(reg[1], reg), heard |-> <<reg[1]>>,
        removed |-> Range(reg) \ Range(Invoke(reg[1], reg)),
        added |-> Range(Invoke(reg[1], reg)) \ Range(reg),
        early |-> Range(reg) \ Range(Invoke(reg[1], reg))]

\* this.listeners.forEach((listener) => listener(this.state))
NotifyPass(reg) == ForEach(reg, 1, EmptyPass)

listenerVars == <<state, listeners, ev>>
listenerIdle == <<isInitialized, storageAdapter, syncChannel, readyPromise,
                  tasks, idb, ls, lastOp, mutated, rt, ops, peers, legacy,
                  inbox, adapter, eq, backends, manager, idbe>>

\* the record of a step of ListenerSpec
ListenerEvent(op, l, n, r, pass, again) ==
  [op      |-> op,
   key     |-> l,
   n       |-> n,
   changed |-> r.changed,
   heard   |-> pass.heard,
   value   |-> IF r.notify THEN r.state ELSE NoRecord,
   removed |-> pass.removed,
   added   |-> pass.added,
   early   |-> pass.early,
   again   |-> again,
   calls   |-> ev.calls + 1,
   issued  |-> IF op = "subscribe"
               THEN [ev.issued EXCEPT ![l] = @ + 1] ELSE ev.issued,
   used    |-> IF op = "unsubscribe" THEN ev.used \cup {<<l, n>>} ELSE ev.used]

NoChange == [state |-> state, changed |-> FALSE, notify |-> FALSE]

\* the effect of a set()/delete() whose outcome is r
Notify(op, r) ==
  LET pass == IF r.notify THEN NotifyPass(listeners)
              ELSE EmptyPass IN
  /\ state' = r.state
  /\ listeners' = IF r.notify THEN pass.listeners ELSE listeners
  /\ ev' = ListenerEvent(op, "", 0, r, pass, FALSE)

\* set(nextState, {replace}) in Temporary mode
ListenerSet(nextState, replace) ==
  /\ ev.calls < MaxCalls
  /\ Notify("set", SetOutcome(state, FALSE, FALSE, nextState, replace, FALSE, FALSE))
  /\ UNCHANGED listenerIdle

\* delete(key) in Temporary mode
ListenerDelete(key) ==
  /\ ev.calls < MaxCalls
  /\ Notify("delete", DeleteOutcome(state, FALSE, FALSE, key))
  /\ UNCHANGED listenerIdle

\* subscribe(l): the closure it returns is the ev.issued[l]-th one for l
Subscribe(l) ==
  /\ ev.calls < MaxCalls
  /\ listeners' = SetAdd(listeners, l)
  /\ ev' = ListenerEvent("subscribe", l, ev.issued[l] + 1, NoChange, EmptyPass, FALSE)
  /\ UNCHANGED state
  /\ UNCHANGED listenerIdle

\* a call of the n-th closure returned by subscribe(l)
Unsubscribe(l, n) ==
  /\ ev.calls < MaxCalls
  /\ n \in 1..ev.issued[l]
  /\ listeners' = SetDelete(listeners, l)
  /\ ev' = ListenerEvent("unsubscribe", l, n, NoChange, EmptyPass, <<l, n>> \in ev.used)
  /\ UNCHANGED state
  /\ UNCHANGED listenerIdle

\* the duplicate-free sequences over S
Registries(S) ==
  {q \in UNION {[1..k -> S] : k \in 0..Cardinality(S)} :
     \A i, j \in 1..Len(q) : i # j => q[i] # q[j]}

\* a container in Temporary mode on which some listeners were subscribed,
\* each once
ListenerInit ==
  /\ state = DefaultState
  /\ listeners \in Registries(AllListeners)
  /\ ev = [op |-> "none", key |-> "", n |-> 0, changed |-> FALSE,
           heard |-> <<>>, value |-> NoRecord, removed |-> {}, added |-> {},
           early |-> {}, again |-> FALSE, calls |-> 0,
           issued |-> [l \in AllListeners |->
                         IF l \in Range(listeners) THEN 1 ELSE 0],
           used |-> {}]
  /\ isInitialized = FALSE
  /\ storageAdapter = NoAdapter
  /\ syncChannel = NoChannel
  /\ readyPromise = "resolved"
  /\ tasks = <<>>
  /\ idb = [n \in DbNames |-> NoRecord]
  /\ ls = [n \in LsNames |-> <<>>]
  /\ lastOp = Blank
  /\ mutated = FALSE
  /\ rt = Live
  /\ ops = 0
  /\ peers = NoPeers
  /\ legacy = NoPeers
  /\ inbox = NoInbox
  /\ adapter = NoCalls
  /\ idbe = NoIdbe
  /\ manager = NoManager
  /\ backends = NoBackends
  /\ eq = NoCompare

ListenerNext ==
  \/ \E u \in Partials, replace \in BOOLEAN : ListenerSet(u, replace)
  \/ \E k \in Keys : ListenerDelete(k)
  \/ \E l \in AllListeners : Subscribe(l)
  \/ \E l \in AllListeners, n \in 1..(MaxCalls + 1) : Unsubscribe(l, n)

ListenerSpec == ListenerInit /\ [][ListenerNext]_listenerVars

(* ------------- AdapterSpec: IndexedDBAdapter and its connections ------- *)
adapterIdle == <<state, isInitialized, storageAdapter, syncChannel,
                 readyPromise, tasks, idb, ls, lastOp, mutated, rt, ops,
                 peers, legacy, inbox, listeners, ev, eq, backends, manager,
                 idbe>>

\* a getItem/setItem call: stage "opening" waits for the open request of
\* connection conn, "ready" for the continuation after `await this.init()`,
\* "request" for the get/put request, "succeeded" for the end of the
\* transaction of a put whose request succeeded
Call(op, stage, conn, value) ==
  [op |-> op, stage |-> stage, conn |-> conn, value |-> value,
   promise |-> "pending", txn |-> "none"]

Positions(stage) == {i \in 1..Len(adapter.calls) : adapter.calls[i].stage = stage}

First(S) == CHOOSE i \in S : \A j \in S : i <= j

\* promise continuations run before the next IndexedDB event
NoMicrotask == Positions("ready") = {}

\* `await this.init()` up to its first suspension: returns when this.db is
\* set, otherwise issues indexedDB.open
AdapterInit(op, value) ==
  IF adapter.db # 0
  THEN [adapter EXCEPT !.calls = Append(@, Call(op, "ready", 0, value))]
  ELSE [adapter EXCEPT
          !.conns = Append(@, "pending"),
          !.calls = Append(@, Call(op, "opening", Len(adapter.conns) + 1, value))]

\* getItem(); the container makes no call on an adapter it has closed
AdapterGetItem ==
  /\ Len(adapter.calls) < MaxCalls
  /\ ~adapter.closed
  /\ adapter' = AdapterInit("get", NoRecord)
  /\ UNCHANGED adapterIdle

\* setItem(value)
AdapterSetItem(value) ==
  /\ Len(adapter.calls) < MaxCalls
  /\ ~adapter.closed
  /\ adapter' = AdapterInit("set", value)
  /\ UNCHANGED adapterIdle

\* close(), called by cleanup()
AdapterClose ==
  /\ ~adapter.closed
  /\ adapter' = [adapter EXCEPT
                   !.conns = [c \in DOMAIN @ |-> IF c = adapter.db THEN "closed" ELSE @[c]],
                   !.db = 0,
                   !.closed = TRUE]
  /\ UNCHANGED adapterIdle

\* the oldest open request succeeds: init() assigns this.db and the call
\* that awaited it creates its transaction on this.db
OpenSuccess ==
  /\ NoMicrotask
  /\ Positions("opening") # {}
  /\ LET i == First(Positions("opening"))
         c == adapter.calls[i].conn
     IN adapter' = [adapter EXCEPT
                      !.conns[c] = "open",
                      !.db = c,
                      !.calls[i].stage = "request",
                      !.calls[i].txn = "active"]
  /\ UNCHANGED adapterIdle

\* the oldest open request fails: init() throws
OpenError ==
  /\ NoMicrotask
  /\ Positions("opening") # {}
  /\ LET i == First(Positions("opening"))
         c == adapter.calls[i].conn
     IN adapter' = [adapter EXCEPT
                      !.conns[c] = "failed",
                      !.calls[i].stage = "done",
                      !.calls[i].promise = "rejected"]
  /\ UNCHANGED adapterIdle

\* the continuation of a call whose init() returned at once:
\* this.db!.transaction(...) throws when close() has nulled this.db
InitReturns ==
  /\ Positions("ready") # {}
  /\ LET i == First(Positions("ready"))
     IN adapter' = IF adapter.db = 0
                   THEN [adapter EXCEPT !.calls[i].stage = "done",
                                        !.calls[i].promise = "rejected"]
                   ELSE [adapter EXCEPT !.calls[i].stage = "request",
                                        !.calls[i].conn = adapter.db,
                                        !.calls[i].txn = "active"]
  /\ UNCHANGED adapterIdle

\* request.onsuccess = () => resolve(...)
RequestSuccess ==
  /\ NoMicrotask
  /\ Positions("request") # {}
  /\ Positions("succeeded") = {}
  /\ LET i == First(Positions("request"))
     IN adapter' = IF adapter.calls[i].op = "set"
                   THEN [adapter EXCEPT !.calls[i].stage = "succeeded",
                                        !.calls[i].promise = "resolved"]
                   ELSE [adapter EXCEPT !.calls[i].stage = "done",
                                        !.calls[i].value = adapter.record,
                                        !.calls[i].promise = "resolved",
                                        !.calls[i].txn = "complete"]
  /\ UNCHANGED adapterIdle

\* request.onerror = () => reject(request.error)
RequestError ==
  /\ NoMicrotask
  /\ Positions("request") # {}
  /\ Positions("succeeded") = {}
  /\ LET i == First(Positions("request"))
     IN adapter' = [adapter EXCEPT !.calls[i].stage = "done",
                                   !.calls[i].promise = "rejected",
                                   !.calls[i].txn = "aborted"]
  /\ UNCHANGED adapterIdle

\* the transaction of a put whose request succeeded commits
TransactionComplete ==
  /\ NoMicrotask
  /\ Positions("succeeded") # {}
  /\ LET i == First(Positions("succeeded"))
     IN adapter' = [adapter EXCEPT !.calls[i].stage = "done",
                                   !.calls[i].txn = "complete",
                                   !.record = adapter.calls[i].value]
  /\ UNCHANGED adapterIdle

\* the transaction of a put whose request succeeded aborts at commit; no
\* handler of the adapter listens for it
TransactionAbort ==
  /\ NoMicrotask
  /\ Positions("succeeded") # {}
  /\ LET i == First(Positions("succeeded"))
     IN adapter' = [adapter EXCEPT !.calls[i].stage = "done",
                                   !.calls[i].txn = "aborted"]
  /\ UNCHANGED adapterIdle

AdapterSpecInit ==
  /\ adapter = NoCalls
  /\ idbe = NoIdbe
  /\ manager = NoManager
  /\ backends = NoBackends
  /\ eq = NoCompare
  /\ state = DefaultState
  /\ isInitialized = FALSE
  /\ storageAdapter = NoAdapter
  /\ syncChannel = NoChannel
  /\ readyPromise = "resolved"
  /\ tasks = <<>>
  /\ idb = [n \in DbNames |-> NoRecord]
  /\ ls = [n \in LsNames |-> <<>>]
  /\ lastOp = Blank
  /\ mutated = FALSE
  /\ rt = Live
  /\ ops = 0
  /\ peers = NoPeers
  /\ legacy = NoPeers
  /\ inbox = NoInbox
  /\ listeners = <<>>
  /\ ev = NoEvent

AdapterNext ==
  \/ AdapterGetItem
  \/ \E v \in SettledValues : AdapterSetItem(v)
  \/ AdapterClose
  \/ OpenSuccess
  \/ OpenError
  \/ InitReturns
  \/ RequestSuccess
  \/ RequestError
  \/ TransactionComplete
  \/ TransactionAbort

AdapterSpec == AdapterSpecInit /\ [][AdapterNext]_adapter

(* ------------- EqualSpec: isEqual on arrays and nested records --------- *)
equalIdle == <<state, isInitialized, storageAdapter, syncChannel,
               readyPromise, tasks, idb, ls, lastOp, mutated, rt, ops, peers,
               legacy, inbox, listeners, adapter, ev, backends, manager,
               idbe>>

\* JavaScript values: a primitive, a plain object or an array; fields maps
\* the own enumerable keys (Object.keys) to the values they hold
Prim(n) == [kind |-> "prim", v |-> n, fields |-> <<>>]
Obj(kind, f) == [kind |-> kind, v |-> 0, fields |-> f]

IndexKeys == {"0", "1"}
\* the own keys of an array of length n
ArrayKeys(n) == IF n = 0 THEN {} ELSE IF n = 1 THEN {"0"} ELSE {"0", "1"}

Prims == {Prim(n) : n \in Vals}
Arrays == UNION {{Obj("array", f) : f \in [ArrayKeys(n) -> Prims]} : n \in 0..2}
Records == UNION {{Obj("record", f) : f \in [D -> Prims]} : D \in SUBSET IndexKeys}
\* states { list: <array or record> }
Nested == {Obj("record", [k \in {"list"} |-> x]) : x \in Arrays \cup Records}
JsValues == Prims \cup Arrays \cup Records \cup Nested

\* typeof x !== "object" || x === null
NotObject(x) == x.kind = "prim"

\* obj1 === obj2: equal primitives, or one and the same object
StrictEqual(obj1, obj2, same) ==
  IF NotObject(obj1) /\ NotObject(obj2) THEN obj1.v = obj2.v ELSE same

\* isEqual with Object.keys compared as stated (for the values held under a
\* key, which are distinct objects unless the outer ones are the same)
RECURSIVE IsEqualDeep(_, _, _)
IsEqualDeep(obj1, obj2, same) ==
  IF StrictEqual(obj1, obj2, same) THEN TRUE
  ELSE IF NotObject(obj1) \/ NotObject(obj2) THEN FALSE
  ELSE LET keys1 == DOMAIN obj1.fields
           keys2 == DOMAIN obj2.fields
       IN /\ Cardinality(keys1) = Cardinality(keys2)
          /\ \A key \in keys1 :
               key \in keys2 /\ IsEqualDeep(obj1.fields[key], obj2.fields[key], FALSE)

\* set(nextState, {replace: true}) in Temporary mode on a container whose
\* state is eq.state; same: nextState is the object the container holds
EqualSet ==
  /\ ~eq.called
  /\ LET hasChanged == ~IsEqualDeep(eq.state, eq.next, eq.same)
     IN eq' = [eq EXCEPT !.called = TRUE,
                         !.changed = hasChanged,
                         !.after = IF hasChanged THEN eq.next ELSE eq.state]
  /\ UNCHANGED equalIdle

EqualInit ==
  /\ \E x \in JsValues, y \in JsValues, same \in BOOLEAN :
       /\ same => (x = y /\ ~NotObject(x))
       /\ eq = [called |-> FALSE, state |-> x, next |-> y, same |-> same,
                changed |-> FALSE, after |-> x]
  /\ state = DefaultState
  /\ isInitialized = FALSE
  /\ storageAdapter = NoAdapter
  /\ syncChannel = NoChannel
  /\ readyPromise = "resolved"
  /\ tasks = <<>>
  /\ idb = [n \in DbNames |-> NoRecord]
  /\ ls = [n \in LsNames |-> <<>>]
  /\ lastOp = Blank
  /\ mutated = FALSE
  /\ rt = Live
  /\ ops = 0
  /\ peers = NoPeers
  /\ legacy = NoPeers
  /\ inbox = NoInbox
  /\ listeners = <<>>
  /\ adapter = NoCalls
  /\ idbe = NoIdbe
  /\ manager = NoManager
  /\ backends = NoBackends
  /\ ev = NoEvent

EqualNext == EqualSet

EqualSpec == EqualInit /\ [][EqualNext]_eq

(* ------------- TargetSpec: containers on targets of their choice ------- *)
targetVars == <<peers, inbox, backends, ev>>
targetIdle == <<state, isInitialized, storageAdapter, syncChannel,
                readyPromise, tasks, idb, ls, lastOp, mutated, rt, ops,
                legacy, listeners, adapter, eq, manager, idbe>>

TargetNames == {"M", "N"}
Targets == {[name |-> n, kind |-> k] :
              n \in TargetNames, k \in {"localStorage", "indexed"}}

\* the channel initSync(config.name) opens: new BroadcastChannel(`echo-${name}`)
ChannelOf(target) == target.name

\* postMessage by container t: queued for every other container whose
\* channel has the same name
TargetPost(t, m) ==
  [x \in Tabs |-> IF x # t /\ ChannelOf(peers[x].target) = ChannelOf(peers[t].target)
                  THEN Append(inbox[x], m) ELSE inbox[x]]

\* storageAdapter.setItem(value) of a container on target; writes to one
\* key land in the order they are issued
TargetPersist(store, target, value) == [store EXCEPT ![target] = value]

\* ev of TargetSpec: own[t] is the value container t holds by its own calls
TargetEvent(op, t, own) ==
  [op |-> op, tab |-> t, calls |-> ev.calls + (IF op = "deliver" THEN 0 ELSE 1),
   own |-> own]

\* the effects of a set()/delete() of container t with outcome r
TargetCommit(op, t, r, m) ==
  /\ ev.calls < MaxCalls
  /\ peers' = [peers EXCEPT ![t].state = r.state]
  /\ backends' = IF r.write THEN TargetPersist(backends, peers[t].target, r.state)
                 ELSE backends
  /\ inbox' = IF r.post THEN TargetPost(t, m) ELSE inbox
  /\ ev' = TargetEvent(op, t, [ev.own EXCEPT ![t] = r.state])
  /\ UNCHANGED targetIdle

\* t.set(u, {replace})
TargetSet(t, u, replace) ==
  LET r == SetOutcome(peers[t].state, TRUE, TRUE, u, replace, FALSE, FALSE)
  IN TargetCommit("set", t, r, Msg("state-update", r.state, "none"))

\* t.delete(key)
TargetDelete(t, key) ==
  LET r == DeleteOutcome(peers[t].state, TRUE, TRUE, key)
  IN TargetCommit("delete", t, r, Msg("state-delete", NoRecord, key))

\* syncChannel.onmessage on container t
TargetDeliver(t) ==
  /\ inbox[t] # <<>>
  /\ LET c == peers[t]
         m == Head(inbox[t])
         nextState == IF m.type = "state-update" THEN m.state
                      ELSE Without(c.state, m.key)
         r == SetOutcome(c.state, TRUE, TRUE, nextState, TRUE, TRUE, FALSE)
         afterSet == IF r.write THEN TargetPersist(backends, c.target, r.state)
                     ELSE backends
     IN /\ peers' = [peers EXCEPT ![t].state = r.state]
        /\ backends' = TargetPersist(afterSet, c.target,
                                     IF m.type = "state-update" THEN m.state ELSE r.state)
        /\ inbox' = [inbox EXCEPT ![t] = Tail(@)]
        /\ ev' = TargetEvent("deliver", t, ev.own)
  /\ UNCHANGED targetIdle

\* new Echo(DefaultState) bound with sync: true to a target by localStorage()
\* or indexed(), for each container, after both hydrates have written the
\* default through
TargetInit ==
  /\ \E tg \in [Tabs -> Targets] :
       /\ peers = [t \in Tabs |-> [state |-> DefaultState, target |-> tg[t]]]
       /\ backends = [x \in Targets |->
                        IF \E t \in Tabs : tg[t] = x THEN DefaultState ELSE NoRecord]
  /\ inbox = NoInbox
  /\ ev = [op |-> "new", tab |-> "none", calls |-> 0,
           own |-> [t \in Tabs |-> DefaultState]]
  /\ state = DefaultState
  /\ isInitialized = FALSE
  /\ storageAdapter = NoAdapter
  /\ syncChannel = NoChannel
  /\ readyPromise = "resolved"
  /\ tasks = <<>>
  /\ idb = [n \in DbNames |-> NoRecord]
  /\ ls = [n \in LsNames |-> <<>>]
  /\ lastOp = Blank
  /\ mutated = FALSE
  /\ rt = Live
  /\ ops = 0
  /\ legacy = NoPeers
  /\ listeners = <<>>
  /\ adapter = NoCalls
  /\ idbe = NoIdbe
  /\ manager = NoManager
  /\ eq = NoCompare

TargetNext ==
  \/ \E t \in Tabs, u \in Partials, replace \in BOOLEAN : TargetSet(t, u, replace)
  \/ \E t \in Tabs, key \in Keys : TargetDelete(t, key)
  \/ \E t \in Tabs : TargetDeliver(t)

TargetSpec == TargetInit /\ [][TargetNext]_targetVars

(* ------------- ManagerSpec: EchoManager.subscribe / notify ------------- *)
managerIdle == <<state, isInitialized, storageAdapter, syncChannel,
                 readyPromise, tasks, idb, ls, lastOp, mutated, rt, ops,
                 peers, legacy, inbox, listeners, adapter, ev, eq, backends,
                 idbe>>

\* manager.sets: the Set objects created so far, by identity; manager.entry:
\* the one the map holds for the key (0: no entry); manager.closures: the
\* unsubscribe functions returned, each with its listener and the Set object
\* it captured; manager.active: the listeners subscribed and not
\* unsubscribed by a function returned for them

\* getListeners(database, objectStore): the map after the call; the Set it
\* returns is the one under entry
GetListeners(m) ==
  IF m.entry = 0
  THEN [m EXCEPT !.sets = Append(@, {}), !.entry = Len(m.sets) + 1]
  ELSE m

\* subscribe(database, objectStore, l)
ManagerSubscribe(l) ==
  /\ manager.calls < MaxManagerCalls
  /\ LET m == GetListeners(manager)
     IN manager' = [m EXCEPT !.sets[m.entry] = @ \cup {l},
                             !.closures = @ \cup {<<l, m.entry>>},
                             !.active = @ \cup {l},
                             !.op = "subscribe",
                             !.heard = {},
                             !.calls = @ + 1]
  /\ UNCHANGED managerIdle

\* a call of the function subscribe returned for listener l, which captured
\* the Set object id: listeners.delete(l); if it is empty,
\* this.listeners.delete(key)
ManagerUnsubscribe(l, id) ==
  /\ manager.calls < MaxManagerCalls
  /\ <<l, id>> \in manager.closures
  /\ LET left == manager.sets[id] \ {l}
     IN manager' = [manager EXCEPT !.sets[id] = left,
                                   !.entry = IF left = {} THEN 0 ELSE @,
                                   !.active = @ \ {l},
                                   !.op = "unsubscribe",
                                   !.heard = {},
                                   !.calls = @ + 1]
  /\ UNCHANGED managerIdle

\* notify(database, objectStore, data)
ManagerNotify ==
  /\ manager.calls < MaxManagerCalls
  /\ LET m == GetListeners(manager)
     IN manager' = [m EXCEPT !.op = "notify",
                             !.heard = m.sets[m.entry],
                             !.calls = @ + 1]
  /\ UNCHANGED managerIdle

ManagerInit ==
  /\ manager = NoManager
  /\ state = DefaultState
  /\ isInitialized = FALSE
  /\ storageAdapter = NoAdapter
  /\ syncChannel = NoChannel
  /\ readyPromise = "resolved"
  /\ tasks = <<>>
  /\ idb = [n \in DbNames |-> NoRecord]
  /\ ls = [n \in LsNames |-> <<>>]
  /\ lastOp = Blank
  /\ mutated = FALSE
  /\ rt = Live
  /\ ops = 0
  /\ peers = NoPeers
  /\ legacy = NoPeers
  /\ inbox = NoInbox
  /\ listeners = <<>>
  /\ adapter = NoCalls
  /\ idbe = NoIdbe
  /\ ev = NoEvent
  /\ eq = NoCompare
  /\ backends = NoBackends

ManagerNext ==
  \/ \E l \in Listeners : ManagerSubscribe(l)
  \/ \E l \in Listeners, id \in 1..MaxManagerCalls : ManagerUnsubscribe(l, id)
  \/ ManagerNotify

ManagerSpec == ManagerInit /\ [][ManagerNext]_manager

(* ------------- IdbeSpec: IDBE.switchDB and initialize ------------------ *)
idbeIdle == <<state, isInitialized, storageAdapter, syncChannel,
              readyPromise, tasks, idb, ls, lastOp, mutated, rt, ops, peers,
              legacy, inbox, listeners, adapter, ev, eq, backends, manager>>

\* the names switchDB is called with; "" is the name without a database
SwitchNames == DbNames \cup {""}

\* a step of an initialize() run (or of the setItem of its hydrate):
\*   "open"   initDB awaits indexedDB.open(name)
\*   "get"    hydrate awaits the get request on connection conn
\*   "wopen"  the setItem of hydrate awaits indexedDB.open(name) in its initDB
\*   "put"    the setItem of hydrate awaits the put of value on connection conn
Run(stage, name, conn, value) ==
  [stage |-> stage, name |-> name, conn |-> conn, value |-> value]

\* initialize() up to its first suspension, with this.dbName = name and
\* this.database = database: the runs it adds
Initialize(name, database) ==
  IF name = "" THEN <<>>
  ELSE IF database # "none" THEN <<Run("get", name, database, NoRecord)>>
  ELSE <<Run("open", name, "none", NoRecord)>>

\* switchDB(name)
IdbeSwitchDB(name) ==
  /\ idbe.calls < MaxCalls
  /\ LET closed == IF idbe.dbName # "" THEN "none" ELSE idbe.database
     IN idbe' = [idbe EXCEPT
                   !.database = closed,
                   !.dbName = name,
                   !.isInitialized = (name = ""),
                   !.state = DefaultState,
                   !.runs = @ \o Initialize(name, closed),
                   !.calls = @ + 1]
  /\ UNCHANGED idbeIdle

\* an open request succeeds (requests on different databases complete in
\* any order): initDB assigns this.database; initialize() goes on to
\* hydrate(), whose getItem and setItem return at once when this.dbName is
\* "" and whose getItem otherwise uses this.database; a setItem goes on to
\* its put
IdbeOpenSuccess(i) ==
  /\ i \in DOMAIN idbe.runs
  /\ idbe.runs[i].stage \in {"open", "wopen"}
  /\ LET run == idbe.runs[i]
     IN idbe' = IF run.stage = "wopen"
                THEN [idbe EXCEPT !.database = run.name,
                                  !.runs[i] = Run("put", run.name, run.name, run.value)]
                ELSE IF idbe.dbName = ""
                THEN [idbe EXCEPT !.database = run.name,
                                  !.isInitialized = TRUE,
                                  !.runs = Remove(@, i)]
                ELSE [idbe EXCEPT !.database = run.name,
                                  !.runs[i] = Run("get", run.name, run.name, NoRecord)]
  /\ UNCHANGED idbeIdle

\* the get request of hydrate() succeeds: set(savedState) under isHydrating,
\* or setItem(this.state), whose initDB opens this.dbName when this.database
\* is null
IdbeGetSuccess(i) ==
  /\ i \in DOMAIN idbe.runs
  /\ idbe.runs[i].stage = "get"
  /\ LET run == idbe.runs[i]
         saved == idbe.records[run.conn]
     IN idbe' =
          IF saved # NoRecord
          THEN [idbe EXCEPT
                  !.state = SetOutcome(idbe.state, TRUE, FALSE, saved, FALSE, FALSE, TRUE).state,
                  !.isInitialized = TRUE,
                  !.runs = Remove(@, i)]
          ELSE IF idbe.dbName = ""
          THEN [idbe EXCEPT !.isInitialized = TRUE, !.runs = Remove(@, i)]
          ELSE IF idbe.database # "none"
          THEN [idbe EXCEPT !.runs[i] = Run("put", run.name, idbe.database, idbe.state)]
          ELSE [idbe EXCEPT !.runs[i] = Run("wopen", idbe.dbName, "none", idbe.state)]
  /\ UNCHANGED idbeIdle

\* the put request of hydrate()'s setItem succeeds; initialize() completes
IdbePutSuccess(i) ==
  /\ i \in DOMAIN idbe.runs
  /\ idbe.runs[i].stage = "put"
  /\ idbe' = [idbe EXCEPT
                !.records[idbe.runs[i].conn] = idbe.runs[i].value,
                !.isInitialized = TRUE,
                !.runs = Remove(@, i)]
  /\ UNCHANGED idbeIdle

\* new IDBE(DefaultState, {database: "A"}): the constructor has started
\* initialize()
IdbeInit ==
  /\ \E recs \in [DbNames -> InitRecords] :
       idbe = [dbName |-> "A", database |-> "none", state |-> DefaultState,
               isInitialized |-> FALSE, runs |-> Initialize("A", "none"),
               records |-> recs, calls |-> 0]
  /\ state = DefaultState
  /\ isInitialized = FALSE
  /\ storageAdapter = NoAdapter
  /\ syncChannel = NoChannel
  /\ readyPromise = "resolved"
  /\ tasks = <<>>
  /\ idb = [n \in DbNames |-> NoRecord]
  /\ ls = [n \in LsNames |-> <<>>]
  /\ lastOp = Blank
  /\ mutated = FALSE
  /\ rt = Live
  /\ ops = 0
  /\ peers = NoPeers
  /\ legacy = NoPeers
  /\ inbox = NoInbox
  /\ listeners = <<>>
  /\ adapter = NoCalls
  /\ ev = NoEvent
  /\ eq = NoCompare
  /\ backends = NoBackends
  /\ manager = NoManager

IdbeNext ==
  \/ \E name \in SwitchNames : IdbeSwitchDB(name)
  \/ \E i \in 1..(MaxCalls + 1) : IdbeOpenSuccess(i)
  \/ \E i \in 1..(MaxCalls + 1) : IdbeGetSuccess(i)
  \/ \E i \in 1..(MaxCalls + 1) : IdbePutSuccess(i)

IdbeSpec == IdbeInit /\ [][IdbeNext]_idbe

(* ------------------------------ claims --------------------------------- *)
MutationOps == {"set", "setfn", "reset", "delete"}
HydrateEnds == {"hydrate_found", "hydrate_default"}

\* set, delete, reset or a mode transition has just been called
CallStep == ops' = ops + 1

\* a hydrate() call resumes after a later mode transition has made another
\* target (or none) the active one
StaleHydrateResumes ==
  /\ ops' = ops
  /\ tasks' # tasks
  /\ lastOp'.op \in {"hydrate_found", "hydrate_default_write", "hydrate_default",
                     "hydrate_failed"}
  /\ ~lastOp'.latest
  /\ lastOp'.key # storageAdapter.name

\* C1: the completion of a hydrate that a later mode transition has superseded
\* neither overwrites nor merges into the in-memory value, so that the value
\* reflects only the new target's data once both hydrates have settled.
C1_StaleHydrateDiscard == [][StaleHydrateResumes => state' = state]_vars

\* C2: when the hydrate of the active target has found a persisted record,
\* the in-memory value equals that record.
C2_HydrateEqualsRecord ==
  (lastOp.op = "hydrate_found" /\ lastOp.latest) => state = lastOp.arg

\* C3: when the hydrate of the active target found no record and no set/delete
\* was called since the transition, then at readiness current is DefaultState
\* and the backend holds DefaultState for that target.
C3_DefaultFill ==
  ( /\ lastOp.op = "hydrate_default"
    /\ lastOp.latest
    /\ ~mutated
    /\ storageAdapter # NoAdapter )
  => /\ ~CurrentRaises
     /\ state = DefaultState
     /\ BackendRecord(storageAdapter) = DefaultState

\* C4: a value v held by a ready container on an indexed target, with its
\* write landed, is what a new container bound to the same target holds once
\* its hydrate has completed, after the first one was destroyed.
C4_RoundTrip ==
  ( /\ rt.stage = "rebound"
    /\ rt.landed
    /\ rt.target.kind = "indexed"
    /\ lastOp.op \in HydrateEnds
    /\ lastOp.latest )
  => state = rt.v

\* C5: after destroy() on a container bound to a persistent target, a new
\* container bound to the same target finds no record and hydrates to
\* DefaultState.
C5_DestroyRemovesData ==
  ( /\ rt.stage = "rebound"
    /\ lastOp.op \in HydrateEnds
    /\ lastOp.latest )
  => (lastOp.op = "hydrate_default" /\ state = DefaultState)

\* the value a set()/delete() call recorded in lastOp' computes from `state`
ComputedNext ==
  IF lastOp'.op = "delete"
    THEN [k \in (DOMAIN state) \ {lastOp'.key} |-> state[k]]
  ELSE IF lastOp'.replace THEN lastOp'.arg
  ELSE Merge(state, lastOp'.arg)

\* C6: a set()/delete()/reset() whose computed next value equals the current
\* value changes nothing: no new in-memory value, no persistence write, no
\* broadcast, no listener notification.
C6_NoOpGate ==
  [][ (CallStep /\ lastOp'.op \in MutationOps /\ ComputedNext = state)
      => /\ UNCHANGED <<state, tasks, idb, ls, isInitialized, storageAdapter,
                        syncChannel, readyPromise>>
         /\ ~lastOp'.wrote /\ ~lastOp'.posted /\ ~lastOp'.notified ]_vars

C6_Witness ==
  /\ lastOp.op = "set" /\ lastOp.replace /\ lastOp.arg = state
  /\ ~lastOp.changed
  /\ isInitialized
  /\ storageAdapter # NoAdapter
  /\ syncChannel # NoChannel

C8_DeleteRemovesKey ==
  [][ (CallStep /\ lastOp'.op = "delete")
      => LET key == lastOp'.key
             asSet == SetResult(state', TRUE, FALSE, FALSE)
         IN /\ DOMAIN state' = (DOMAIN state) \ {key}
            /\ \A k \in DOMAIN state' : state'[k] = state[k]
            /\ key \notin DOMAIN state =>
                 /\ UNCHANGED <<state, tasks, idb, ls>>
                 /\ ~lastOp'.wrote /\ ~lastOp'.posted /\ ~lastOp'.notified
            /\ key \in DOMAIN state =>
                 /\ lastOp'.wrote = asSet.write
                 /\ lastOp'.posted = asSet.post
                 /\ lastOp'.notified = asSet.notify
                 /\ tasks' = (IF asSet.write THEN PersistTasks(state') ELSE tasks)
                 /\ ls' = (IF asSet.write THEN PersistLs(state') ELSE ls)
                 /\ idb' = idb ]_vars

C8_Witness ==
  /\ lastOp.op = "delete" /\ lastOp.changed
  /\ lastOp.wrote /\ lastOp.posted /\ lastOp.notified
  /\ lastOp.key \notin DOMAIN state
  /\ DOMAIN state # {}

\* the container is in Temporary mode
InTemporaryMode == storageAdapter = NoAdapter /\ rt.stage # "destroyed"

\* C9: in Temporary mode the container is ready: ready() is resolved and
\* current returns without raising.
C9_TemporaryIsReady ==
  InTemporaryMode => (readyPromise = "resolved" /\ ~CurrentRaises)

\* the hydrate started by the last localStorage()/indexed() call is pending
ActiveHydratePending ==
  /\ storageAdapter # NoAdapter
  /\ \E i \in DOMAIN tasks : tasks[i].hyd /\ tasks[i].latest

\* C10: while the hydrate of the newly selected target is pending, current
\* raises the not-ready error.
C10_PendingRaises == ActiveHydratePending => CurrentRaises

\* the read (or the open) of the backend fails in the hydrate started by the
\* last localStorage()/indexed() call
ReadFailStep ==
  /\ storageAdapter # NoAdapter
  /\ \E i \in DOMAIN tasks :
       /\ tasks[i].t = "get"
       /\ tasks[i].latest
       /\ tasks[i].target = storageAdapter
       /\ tasks' = Remove(tasks, i)
  /\ lastOp'.op = "hydrate_failed"

\* C11: once the promise ready() returned after localStorage()/indexed() has
\* resolved, current returns the in-memory value without raising, whatever
\* the outcome of the backend read was.
C11_ResolvedIsReady ==
  (storageAdapter # NoAdapter /\ readyPromise = "resolved") => ~CurrentRaises

\* C12: when the backend read or open fails during hydrate, the promise of
\* ready() for that phase does not resolve: it rejects.
C12_ReadFailureRejects == [][ReadFailStep => readyPromise' # "resolved"]_vars

\* C13: when the backend read or open fails during hydrate, the in-memory
\* value is DefaultState once the phase has settled, whatever it was before.
C13_ReadFailureFallsBack == [][ReadFailStep => state' = DefaultState]_vars

\* a state-changing set() on a container whose channel is open
SyncedSetStep == ev'.op = "set" /\ ev'.changed /\ peers[ev'.tab].syncChannel

\* the onmessage handler of a container runs on a state-update message
UpdateDeliveryStep == ev'.op = "deliver" /\ ev'.msg.type = "state-update"

\* what C14 says of the sender, of the receiver's value and of the total
EchoSuppressionCore ==
  /\ SyncedSetStep =>
       /\ ev'.posts = 1
       /\ \A x \in Tabs \ {ev'.tab} :
            inbox'[x] = IF peers[x].syncChannel
                          THEN Append(inbox[x],
                                      Msg("state-update", peers'[ev'.tab].state, "none"))
                          ELSE inbox[x]
  /\ UpdateDeliveryStep =>
       /\ peers'[ev'.tab].state = ev'.msg.state
       /\ ev'.posts = 0
       /\ \A x \in Tabs \ {ev'.tab} : inbox'[x] = inbox[x]
  /\ ev'.sent = ev'.changes

LegacyPostStep == ev'.posts = 1

\* what C15 says of the stored digest and of received messages
DigestBookkeeping ==
  /\ LegacyPostStep => legacy'[ev'.tab].lastSyncHash = ev'.digest
  /\ (ev'.op = "deliver" /\ ev'.applied) =>
       /\ legacy'[ev'.tab].lastSyncHash = ev'.digest
       /\ legacy'[ev'.tab].store = Parse(ev'.digest)
  /\ (ev'.op = "deliver" /\ ev'.digest = legacy[ev'.tab].lastSyncHash) =>
       /\ ~ev'.applied
       /\ legacy'[ev'.tab] = legacy[ev'.tab]
       /\ ls' = ls

\* C15 (as stated): a container never posts a state-update message whose
\* digest equals the digest of the last message it sent or received; the
\* stored digest is updated on every send and every applied receive, and a
\* received message whose digest equals the stored one is not applied.
C15_NeverRepostsLastDigest ==
  [][ /\ LegacyPostStep => ev'.digest # ev.last[ev'.tab]
      /\ DigestBookkeeping ]_legacyVars

\* C15 (amended): the same, where the last message sent or received is
\* counted from the moment sync was last enabled on the container:
\* sync(false) forgets the stored digest, and the sync(true) that follows
\* posts the current state even if it repeats the last message.
C15_DigestSuppression ==
  [][ /\ LegacyPostStep => ev'.digest # ev.session[ev'.tab]
      /\ ev'.session[ev'.tab] = legacy'[ev'.tab].lastSyncHash
      /\ DigestBookkeeping ]_legacyVars

\* a set() whose new state has the stored digest is not posted
C15_Witness ==
  /\ ev.op = "set" /\ ev.posts = 0
  /\ legacy[ev.tab].channel /\ legacy[ev.tab].sync
  /\ GetStateHash(legacy[ev.tab].store) = legacy[ev.tab].lastSyncHash
  /\ ev.session[ev.tab] = legacy[ev.tab].lastSyncHash
  /\ legacy[ev.tab].store # DefaultState

\* a state-changing set()/delete() is called while the hydrate started by the
\* last localStorage()/indexed() call is pending
ChangeWhileHydrating ==
  /\ CallStep
  /\ lastOp'.op \in {"set", "setfn", "delete"}
  /\ lastOp'.changed
  /\ ActiveHydratePending

\* C16: a state-changing set()/delete() called while the container is still
\* hydrating updates memory and notifies listeners but issues no persistence
\* write.
C16_NoWriteWhileHydrating ==
  [][ ChangeWhileHydrating
      => /\ state' = ComputedNext
         /\ lastOp'.notified
         /\ ~lastOp'.wrote
         /\ tasks' = tasks /\ ls' = ls /\ idb' = idb ]_vars

\* the hydrate of the active target and every write issued have completed,
\* the last of them successfully, after set/delete calls made since the
\* mode transition
WritesSettled ==
  /\ storageAdapter # NoAdapter
  /\ rt.stage = "live"
  /\ isInitialized
  /\ tasks = <<>>
  /\ mutated
  /\ lastOp.op \in {"write_landed", "hydrate_found", "hydrate_default"}

\* C17: once every issued write and the hydrate have completed, the persisted
\* record of the target equals the in-memory value.
C17_WriteThroughConverges ==
  WritesSettled => BackendRecord(storageAdapter) = state

\* a state-changing set()/delete() that issues a write-through
WriteThroughCall ==
  /\ CallStep
  /\ lastOp'.op \in {"set", "setfn", "delete"}
  /\ lastOp'.wrote

\* the write-through of an earlier set()/delete() is rejected
WriteRejectedStep == ops' = ops /\ tasks' # tasks /\ lastOp'.op = "write_failed"

\* C18: a set()/delete() that issues a write-through returns with the new
\* in-memory value and the listeners notified, whatever becomes of the write;
\* the later rejection of that write changes neither the in-memory value nor
\* the readiness state.
C18_WriteFailureSwallowed ==
  [][ /\ WriteThroughCall
        => /\ state' = ComputedNext
           /\ lastOp'.notified
           /\ UNCHANGED <<isInitialized, readyPromise>>
      /\ WriteRejectedStep
        => UNCHANGED <<state, isInitialized, readyPromise, storageAdapter,
                       syncChannel>> ]_vars

C18_Witness ==
  /\ lastOp.op = "write_failed"
  /\ isInitialized
  /\ readyPromise = "resolved"
  /\ mutated
  /\ state # DefaultState
  /\ BackendRecord(storageAdapter) # state

\* C19: after destroy() has returned, no listener that was registered before
\* it is invoked by a later operation on the container.
C19_DestroyClearsListeners ==
  ev.tab \in Tabs => ev.heard \cap ev.stale[ev.tab] = {}

\* a call made on a destroyed container
CallAfterDestroy == CallStep /\ rt.stage = "destroyed"

\* C20: after destroy() no call to localStorage()/indexed()/temporary()/set()
\* opens a backend connection or a change channel, issues a write or posts a
\* message.
C20_DestroyIsTerminal ==
  [][ CallAfterDestroy
      => /\ storageAdapter' = NoAdapter
         /\ syncChannel' = NoChannel
         /\ tasks' = tasks /\ ls' = ls
         /\ ~lastOp'.wrote /\ ~lastOp'.posted ]_vars

\* switch() is called while the container is not bound to an indexed target
SwitchOutsideIndexed ==
  /\ CallStep
  /\ lastOp'.op \in {"switch", "switch_rejected"}
  /\ storageAdapter.kind # "indexed"

SwitchSettled ==
  /\ rt.stage \in {"away", "back"}
  /\ rt.landed
  /\ storageAdapter.kind = "indexed"
  /\ lastOp.op \in HydrateEnds
  /\ lastOp.latest
  /\ ~mutated

\* C22: from key k1 holding v, switch(k2) to an unseen key yields DefaultState
\* once ready, a later switch back to k1 restores v, and the value hydrated
\* after a switch is the record of the new key, never a value of another key.
C22_SwitchIsolation ==
  SwitchSettled
  => /\ (rt.stage = "away" /\ lastOp.op = "hydrate_default") => state = DefaultState
     /\ rt.stage = "back" => state = rt.v
     /\ lastOp.op = "hydrate_found" => state = lastOp.arg

\* a set()/delete() of ListenerSpec that changed the state
ChangingCall ==
  ev'.calls = ev.calls + 1 /\ ev'.op \in {"set", "delete"} /\ ev'.changed

Occurrences(seq, l) == Cardinality({i \in 1..Len(seq) : seq[i] = l})

C24_AddedNotInvoked ==
  [][ ChangingCall =>
        \A l \in ev'.added \ Range(listeners) : l \notin Range(ev'.heard) ]_listenerVars

\* C25: a listener removed by another listener during a notification pass
\* before its own turn is not invoked in that pass.
C25_RemovedNotInvoked ==
  [][ ChangingCall =>
        \A l \in ev'.early : l \notin Range(ev'.heard) ]_listenerVars

\* C26: the function returned by subscribe(l) removes l when it is first
\* called, leaves every other listener registered, and has no effect when
\* it is called again.
C26_UnsubscribeOnce ==
  [][ (ev'.calls = ev.calls + 1 /\ ev'.op = "unsubscribe") =>
        listeners' = IF ev'.again THEN listeners
                     ELSE SetDelete(listeners, ev'.key) ]_listenerVars


\* the connections of the adapter that are open
OpenConnections == {c \in DOMAIN adapter.conns : adapter.conns[c] = "open"}

\* C27: once a transition has closed the adapter, the adapter holds no
\* connection and none of its connections is open, also when its open
\* request was in flight at the time of the close.
C27_ClosedStaysClosed ==
  adapter.closed => adapter.db = 0 /\ OpenConnections = {}

\* C29: a setItem promise is resolved only when its write transaction has
\* completed.
C29_ResolvesAfterCommit ==
  \A i \in DOMAIN adapter.calls :
     (adapter.calls[i].op = "set" /\ adapter.calls[i].promise = "resolved")
        => adapter.calls[i].txn = "complete"

\* C30: however the init() calls of getItem/setItem overlap, at most one
\* connection is ever opened, and an open connection is the one in this.db.
C30_InitIdempotent ==
  /\ Cardinality({c \in DOMAIN adapter.conns :
                    adapter.conns[c] \in {"open", "closed"}}) <= 1
  /\ \A c \in OpenConnections : adapter.db = c

\* the hydrate() started by the latest localStorage()/indexed() completes
HydrateCompletes ==
  /\ ops' = ops
  /\ tasks' # tasks
  /\ lastOp'.op \in HydrateEnds
  /\ lastOp'.latest

\* C28: when the hydrate started by localStorage() or indexed() completes,
\* with a record found or with the default written through, the listeners
\* are notified.
C28_HydrateNotifies ==
  [][ HydrateCompletes => lastOp'.notified ]_vars

\* C31: isEqual has no false positives: when set() with replace is dropped
\* as a no-op, the next value is the same object as the state or a value of
\* the same kind with the same keys and recursively equal values.
C31_NoFalsePositive ==
  (eq.called /\ ~eq.changed) => eq.state = eq.next

\* set, delete or reset of LegacySpec has changed the store of its container
LegacyChangingCall ==
  /\ ev'.calls = ev.calls + 1
  /\ ev'.op \in {"set", "delete", "reset"}
  /\ legacy'[ev'.tab].store # legacy[ev'.tab].store

\* C32: every set, delete or reset that changes the state calls onChange
\* exactly once, with the new state and the state held before.
C32_OnChangeOnce ==
  [][ LegacyChangingCall =>
        /\ ev'.onChange = 1
        /\ ev'.arg = legacy'[ev'.tab].store
        /\ ev'.old = legacy[ev'.tab].store ]_legacyVars

C34_StaleHydrateWritesNothing ==
  [][ StaleHydrateResumes => (~lastOp'.wrote /\ ls' = ls) ]_vars

\* every posted message has been delivered and every container still has
\* its channel
AllDelivered ==
  /\ \A t \in Tabs : peers # NoPeers /\ peers[t].syncChannel
  /\ \A t \in Tabs : inbox[t] = <<>>

\* C35: once every posted message has been delivered, the sync-enabled
\* containers on one channel hold the same in-memory value.
C35_Convergence ==
  AllDelivered => \A t, x \in Tabs : peers[t].state = peers[x].state

\* C36: a container whose target differs from every other container's
\* target holds, in memory and in its persisted record, the value its own
\* calls produced: no other container changes either.
C36_ForeignTargetsIsolated ==
  \A t \in Tabs :
     (backends # NoBackends /\ \A x \in Tabs \ {t} : peers[x].target # peers[t].target)
        => /\ peers[t].state = ev.own[t]
           /\ backends[peers[t].target] = ev.own[t]

\* C37: each notify invokes every listener that has been subscribed and not
\* unsubscribed by a function returned for it.
C37_ActiveListenersNotified ==
  manager.op = "notify" => manager.active \subseteq manager.heard

\* a legacy container handles the message by which another container
\* announced its state when its sync was enabled
AnnouncementDelivered ==
  /\ ev'.op = "deliver"
  /\ ev'.calls = ev.calls
  /\ inbox[ev'.tab] # <<>>
  /\ inbox'[ev'.tab] = Tail(inbox[ev'.tab])
  /\ Head(inbox[ev'.tab]).key = "announce"

\* C38: enabling sync on a container changes the state of no other
\* container: the message it posts on enabling is not applied anywhere.
C38_EnablingSyncChangesNothing ==
  [][ AnnouncementDelivered =>
        legacy'[ev'.tab].store = legacy[ev'.tab].store ]_legacyVars

\* every open request and hydrate started by the constructor and the
\* switchDB calls has completed
IdbeSettled == idbe.dbName # "none" /\ idbe.runs = <<>>

\* C39: once the switchDB calls have settled, the connection the instance
\* holds is to the database the last switchDB named, and the state is that
\* database's record (over the default) or DefaultState.
C39_HoldsLatestDatabase ==
  (IdbeSettled /\ idbe.dbName # "") =>
     /\ idbe.database = idbe.dbName
     /\ idbe.state \in {DefaultState,
                        IF idbe.records[idbe.dbName] # NoRecord
                        THEN Merge(DefaultState, idbe.records[idbe.dbName])
                        ELSE DefaultState}

====
